---- MODULE Spec2Model ----
(***************************************************************************)
(* A model of the Monad compiler / interactive evaluator (laluxx/monadc):  *)
(* the environment (hash map of entries), the arithmetic promotion rules,  *)
(* literal type inference over lexer output, batch lowering of top-level   *)
(* forms and the wrapper-per-line interactive evaluator.                   *)
(***************************************************************************)
EXTENDS Integers, Sequences, FiniteSets, TLC

VARIABLES
    env,        \* Env under test (env.c): [buckets, count]
    envHist,    \* the env_insert* calls made on env so far, oldest first
    arith,      \* one arithmetic call: its operator, operand kinds and lowering result
    rd,         \* the reader: lexer state, last token, and the number node built from it
    heap,       \* the Type records allocated so far (types.c) and the misuse log
    cg,         \* the batch compile: root table, forms lowered, how the last one went
    repl,       \* the interactive session: table, module globals, wrappers, how the last line went
    conv,       \* one value conversion of batch lowering: the kinds it was given, what it emitted
    pr,         \* one text produced: by the printers of a tree, by __print_binary, by the reader on a printed tree
    em          \* the back end of one batch compile: flags, block reached, files written, exit status

vars == <<env, envHist, arith, rd, heap, cg, repl, conv, pr, em>>

----
\* Bounds of the model

MaxEnvOps == 3

MaxArgs == 3

MaxSrcLen == 4

MaxForms == 3

MaxLines == 3

\* Parameters of a user function, arguments of a call
MaxParams == 2

\* Items of a quoted list
MaxQuoted == 3

\* Bytes of a scanned source
MaxScanLen == 3

\* lexer_next_token calls on one source
MaxCalls == 4

----
\* All sequences over S of length at most n
RECURSIVE SeqsUpTo(_, _)
SeqsUpTo(S, n) ==
    IF n = 0 THEN {<<>>}
    ELSE LET shorter == SeqsUpTo(S, n - 1)
         IN  shorter \cup {Append(q, x) : q \in shorter, x \in S}

----
\* Names and their bytes

NULL == "NULL"

Names == {"a", "q", "x"}

\* The bytes of a name, as the C string holds them (ASCII codes).
NameBytes(n) ==
    CASE n = "a" -> <<97>>
      [] n = "b" -> <<98>>
      [] n = "q" -> <<113>>
      [] n = "x" -> <<120>>
      [] n = "f" -> <<102>>
      [] n = "g" -> <<103>>
      [] n = "p" -> <<112>>
      [] n = "+" -> <<43>>
      [] n = "-" -> <<45>>
      [] n = "*" -> <<42>>
      [] n = "/" -> <<47>>
      [] n = "show"   -> <<115, 104, 111, 119>>
      [] n = "quote"  -> <<113, 117, 111, 116, 101>>
      [] n = "define" -> <<100, 101, 102, 105, 110, 101>>
      [] OTHER   -> <<63>>

----
\* Type records on the heap (types.c).  A Type pointer is the index of its
\* cell, 0 being NULL; a freed cell stays in place, marked dead.  ub logs the
\* undefined uses: a second free of a cell, a read of a dead cell.

EmptyHeap == [cells |-> <<>>, ub |-> <<>>]

\* make_type(kind); the pointer returned is NewestType of the result.
make_type(h, kind) ==
    [h EXCEPT !.cells = Append(@, [kind |-> kind, live |-> TRUE])]

NewestType(h) == Len(h.cells)

IsLive(h, t) == t # 0 /\ h.cells[t].live

\* type_clone(t); the pointer returned is ClonedType of the result.
type_clone(h, t) == IF t = 0 THEN h ELSE make_type(h, h.cells[t].kind)

ClonedType(h, t) == IF t = 0 THEN 0 ELSE Len(h.cells) + 1

type_free(h, t) ==
    IF t = 0 THEN h
    ELSE IF ~h.cells[t].live THEN [h EXCEPT !.ub = Append(@, "double free")]
    ELSE [h EXCEPT !.cells[t].live = FALSE]

----
\* Environment (env.c)

INITIAL_SIZE == 16

\* unsigned int arithmetic is modulo 2^32; the value is kept as two 16-bit
\* halves <<hi, lo>>.
Half == 65536

\* h = ((h << 5) + h) + c
HashStep(h, c) ==
    LET lo == h[2] * 33 + c
        hi == h[1] * 33 + (lo \div Half)
    IN  <<hi % Half, lo % Half>>

RECURSIVE HashFrom(_, _)
HashFrom(h, s) ==
    IF s = <<>> THEN h ELSE HashFrom(HashStep(h, Head(s)), Tail(s))

\* 5381 = 0x00001505
hash(name) == HashFrom(<<0, 5381>>, NameBytes(name))

\* h % m for the two-halves value h
UMod(h, m) == (((h[1] % m) * (Half % m)) + (h[2] % m)) % m

env_create ==
    [buckets |-> [i \in 0..(INITIAL_SIZE - 1) |-> <<>>],
     size    |-> INITIAL_SIZE,
     count   |-> 0]

\* The NULL entry pointer (what find returns when the name is absent).
NullEntry ==
    [name |-> NULL, docstring |-> NULL, kind |-> "NONE", type |-> 0,
     value |-> 0, arity_min |-> -1, arity_max |-> -1, func_ref |-> 0,
     params |-> <<>>, param_count |-> 0, return_type |-> 0]

\* Index in chain c of the first entry named name, 0 if none.
FindIdx(c, name) ==
    IF \E i \in 1..Len(c) : c[i].name = name
    THEN CHOOSE i \in 1..Len(c) :
            /\ c[i].name = name
            /\ \A j \in 1..(i - 1) : c[j].name # name
    ELSE 0

BucketOf(table, name) == UMod(hash(name), table.size)

\* find without the strcmp: the head of the bucket matches any name.
find_head(table, name) ==
    LET c == table.buckets[BucketOf(table, name)]
    IN  IF c = <<>> THEN NullEntry ELSE c[1]

find(table, name) ==
    LET c == table.buckets[BucketOf(table, name)]
        i == FindIdx(c, name)
    IN  IF i = 0 THEN NullEntry ELSE c[i]

\* calloc'd entry: every field zero, arity -1/-1.  kind 0 is ENV_VAR.
new_entry(name) ==
    [name |-> name, docstring |-> NULL, kind |-> "ENV_VAR", type |-> 0,
     value |-> 0, arity_min |-> -1, arity_max |-> -1, func_ref |-> 0,
     params |-> <<>>, param_count |-> 0, return_type |-> 0]

\* Link e at the head of its bucket and count it.
chain(table, e) ==
    LET idx == BucketOf(table, e.name)
    IN  [table EXCEPT !.buckets[idx] = <<e>> \o @, !.count = @ + 1]

\* Overwrite, in place, the entry that find returns for e.name.
StoreEntry(table, e) ==
    LET idx == BucketOf(table, e.name)
        i   == FindIdx(table.buckets[idx], e.name)
    IN  [table EXCEPT !.buckets[idx][i] = e]

\* free(params[i].type) for i from 1 on
RECURSIVE FreeParams(_, _, _)
FreeParams(h, params, i) ==
    IF i > Len(params) THEN h
    ELSE FreeParams(type_free(h, params[i].type), params, i + 1)

free_entry_fields(h, e) ==
    FreeParams(type_free(type_free(h, e.type), e.return_type), e.params, 1)

\* All entries of the table, bucket by bucket.
RECURSIVE EntriesFrom(_, _)
EntriesFrom(table, i) ==
    IF i >= table.size THEN <<>>
    ELSE table.buckets[i] \o EntriesFrom(table, i + 1)

EnvEntries(table) == EntriesFrom(table, 0)

RECURSIVE FreeEntries(_, _)
FreeEntries(h, es) ==
    IF es = <<>> THEN h ELSE FreeEntries(free_entry_fields(h, Head(es)), Tail(es))

\* env_free(table): the heap once every entry's fields are released.
env_free(h, table) == FreeEntries(h, EnvEntries(table))

\* The env_insert* operators that release or allocate Type records take the
\* heap and give back [heap, env].
env_insert_with_doc(h, table, name, type, value, docstring) ==
    LET e == find(table, name)
    IN  IF e.kind # "NONE"
        THEN [heap |-> type_free(h, e.type),
              env  |-> StoreEntry(table, [e EXCEPT !.kind = "ENV_VAR", !.type = type,
                                         !.value = value, !.docstring = docstring])]
        ELSE [heap |-> h,
              env  |-> chain(table, [new_entry(name) EXCEPT !.kind = "ENV_VAR",
                                         !.type = type, !.value = value,
                                         !.docstring = docstring])]

env_insert(h, table, name, type, value) ==
    env_insert_with_doc(h, table, name, type, value, NULL)

\* env_insert_builtin without the lookup: always links a new entry.
env_insert_builtin_nofind(table, name, arity_min, arity_max) ==
    chain(table, [new_entry(name) EXCEPT !.kind = "ENV_BUILTIN",
                                         !.arity_min = arity_min,
                                         !.arity_max = arity_max])

env_insert_builtin(table, name, arity_min, arity_max) ==
    LET e == find(table, name)
    IN  IF e.kind # "NONE"
        THEN StoreEntry(table, [e EXCEPT !.kind = "ENV_BUILTIN",
                                         !.arity_min = arity_min,
                                         !.arity_max = arity_max])
        ELSE chain(table, [new_entry(name) EXCEPT !.kind = "ENV_BUILTIN",
                                         !.arity_min = arity_min,
                                         !.arity_max = arity_max])

\* Fields of a function entry; free_entry_fields has released the old ones.
FuncFields(e, params, return_type, func_ref, docstring, fn_type) ==
    [e EXCEPT !.kind = "ENV_FUNC", !.params = params,
              !.param_count = Len(params), !.return_type = return_type,
              !.func_ref = func_ref, !.arity_min = Len(params),
              !.arity_max = Len(params), !.docstring = docstring,
              !.type = fn_type]

env_insert_func(h, table, name, params, return_type, func_ref, docstring) ==
    LET e     == find(table, name)
        found == e.kind # "NONE"
        h1    == IF found THEN free_entry_fields(h, e) ELSE h
        t1    == IF found THEN table ELSE chain(table, new_entry(name))
        h2    == make_type(h1, "Fn")
    IN  [heap |-> h2,
         env  |-> StoreEntry(t1, FuncFields(find(t1, name), params, return_type,
                                            func_ref, docstring, NewestType(h2)))]

env_lookup(table, name) == find(table, name)

----
\* Type kinds and the arithmetic promotion of codegen_expr (main.c)

Kinds == {"Int", "Float", "Char", "String", "Bool", "Hex", "Bin", "Oct",
          "Fn", "Unknown"}

\* A numeric test that leaves Char out.
type_is_numeric_nochar(t) == t \in {"Int", "Float", "Hex", "Bin", "Oct"}

type_is_numeric(t) == t \in {"Int", "Float", "Hex", "Bin", "Oct", "Char"}

type_is_integer(t) == t \in {"Int", "Hex", "Bin", "Oct", "Char"}

type_is_float(t) == t = "Float"

IsBase(t) == t \in {"Hex", "Bin", "Oct"}

\* The incompatible-mixing test of one fold step.
MixRejected(result_type, rhs_type) ==
    IsBase(result_type) /\ IsBase(rhs_type) /\ result_type # rhs_type

\* A promotion whose fallback keeps the running type.
PromotedType_keepsLhs(result_type, rhs_type) ==
    IF type_is_float(result_type) \/ type_is_float(rhs_type) THEN "Float"
    ELSE IF result_type = "Char" \/ rhs_type = "Char" THEN "Int"
    ELSE result_type

\* new_result_type of one fold step.
PromotedType(result_type, rhs_type) ==
    IF type_is_float(result_type) \/ type_is_float(rhs_type) THEN "Float"
    ELSE IF result_type = "Char" \/ rhs_type = "Char" THEN "Int"
    ELSE IF result_type = rhs_type THEN result_type
    ELSE IF result_type = "Int" \/ rhs_type = "Int" THEN "Int"
    ELSE "Int"

\* One iteration of the binary loop on the running type and the next operand.
FoldStep(result_type, rhs_type) ==
    IF ~type_is_numeric(rhs_type)
    THEN [err |-> "nonnumeric", type |-> rhs_type]
    ELSE IF MixRejected(result_type, rhs_type)
    THEN [err |-> "mix", type |-> result_type]
    ELSE [err |-> "none", type |-> PromotedType(result_type, rhs_type)]

\* The binary loop from operand i on; steps counts the iterations completed.
RECURSIVE Fold(_, _, _, _)
Fold(result_type, kinds, i, steps) ==
    IF i > Len(kinds)
    THEN [err |-> "none", type |-> result_type, steps |-> steps]
    ELSE LET r == FoldStep(result_type, kinds[i])
         IN  IF r.err # "none"
             THEN [err |-> r.err, type |-> r.type, steps |-> steps]
             ELSE Fold(r.type, kinds, i + 1, steps + 1)

\* The lowering with a unary minus that widens its operand as a binary step
\* against an Int would.
ArithCall_unaryWidens(op, kinds) ==
    LET result_type == kinds[1]
    IN  IF ~type_is_numeric(result_type)
        THEN [err |-> "nonnumeric", type |-> result_type, steps |-> 0]
        ELSE IF op = "-" /\ Len(kinds) = 1
        THEN [err |-> "none", type |-> PromotedType(result_type, "Int"), steps |-> 0]
        ELSE IF op = "/" /\ Len(kinds) = 1
        THEN [err |-> "none",
              type |-> IF type_is_float(result_type) THEN result_type ELSE "Float",
              steps |-> 0]
        ELSE Fold(result_type, kinds, 2, 0)

\* Lowering of (op k1 ... kn), n >= 1, given the kinds of the lowered operands.
ArithCall(op, kinds) ==
    LET result_type == kinds[1]
    IN  IF ~type_is_numeric(result_type)
        THEN [err |-> "nonnumeric", type |-> result_type, steps |-> 0]
        ELSE IF op = "-" /\ Len(kinds) = 1
        THEN [err |-> "none", type |-> result_type, steps |-> 0]
        ELSE IF op = "/" /\ Len(kinds) = 1
        THEN [err |-> "none",
              type |-> IF type_is_float(result_type) THEN result_type ELSE "Float",
              steps |-> 0]
        ELSE Fold(result_type, kinds, 2, 0)

----
\* Lexer (reader.c).  The source is a NUL-terminated buffer: a sequence of
\* one-character strings, the NUL being the byte after the last one.

NUL == "NUL"

Digits == {"0", "1", "2", "3", "4", "5", "6", "7", "8", "9"}

HexDigits == Digits \cup {"a", "b", "c", "d", "e", "f", "A", "B", "C", "D", "E", "F"}

Letters == {"a", "b", "c", "d", "e", "f", "g", "h", "i", "j", "k", "l", "m", "n",
            "o", "p", "q", "r", "s", "t", "u", "v", "w", "x", "y", "z",
            "A", "B", "C", "D", "E", "F", "G", "H", "I", "J", "K", "L", "M", "N",
            "O", "P", "Q", "R", "S", "T", "U", "V", "W", "X", "Y", "Z"}

SymbolChars == Letters \cup Digits \cup
               {"-", "+", "*", "/", "<", ">", "=", "!", "?", "_", ":"}

is_digit(c) == c \in Digits

is_hex_digit(c) == c \in HexDigits

is_symbol_char(c) == c \in SymbolChars

lexer_init(source) == [source |-> source, pos |-> 0, line |-> 1, column |-> 1]

\* lex->source[i], i counted from 0; the byte at strlen is the NUL.
ByteAt(source, i) == IF i < Len(source) THEN source[i + 1] ELSE NUL

\* strlen(source): the index of the first NUL
strlen(source) ==
    IF \E i \in 1..Len(source) : source[i] = NUL
    THEN (CHOOSE i \in 1..Len(source) :
              source[i] = NUL /\ \A j \in 1..(i - 1) : source[j] # NUL) - 1
    ELSE Len(source)

peek(lex) == ByteAt(lex.source, lex.pos)

peek_ahead(lex, offset) == ByteAt(lex.source, lex.pos + offset)

advance(lex) ==
    IF peek(lex) = "\n"
    THEN [lex EXCEPT !.pos = @ + 1, !.line = @ + 1, !.column = 1]
    ELSE [lex EXCEPT !.pos = @ + 1, !.column = @ + 1]

\* while (peek(lex) in S) advance(lex);   (S never holds the NUL)
RECURSIVE AdvanceWhileIn(_, _)
AdvanceWhileIn(lex, S) ==
    IF peek(lex) \in S THEN AdvanceWhileIn(advance(lex), S) ELSE lex

skip_whitespace(lex) == AdvanceWhileIn(lex, {" ", "\t", "\n", "\r"})

RECURSIVE skip_line_comment(_)
skip_line_comment(lex) ==
    IF peek(lex) # "\n" /\ peek(lex) # NUL
    THEN skip_line_comment(advance(lex))
    ELSE lex

\* The loop that skips comments and the whitespace after each.
RECURSIVE SkipComments(_)
SkipComments(lex) ==
    IF peek(lex) = ";"
    THEN SkipComments(skip_whitespace(skip_line_comment(lex)))
    ELSE lex

\* my_strndup(lex->source + start, end - start)
Slice(source, start, end) == SubSeq(source, start + 1, end)

Tok(type, value, lex0) ==
    [type |-> type, value |-> value, line |-> lex0.line, column |-> lex0.column]

LexOut(lex, tok) == [lex |-> lex, tok |-> tok, exit |-> "no"]

LexExit(lex, lex0, msg) == [lex |-> lex, tok |-> Tok("NONE", <<>>, lex0), exit |-> msg]

\* Escape decoding of a character literal.
EscapeChar(ch) ==
    CASE ch = "n"  -> "\n"
      [] ch = "t"  -> "\t"
      [] ch = "r"  -> "\r"
      [] ch = "\\" -> "\\"
      [] ch = "'"  -> "'"
      [] ch = "0"  -> NUL
      [] OTHER     -> ch

\* The character-literal / quote branch; lex stands at the tick.
LexTick(lex) ==
    LET lp   == lex.pos + 1
        n    == strlen(lex.source)
        next == ByteAt(lex.source, lp)
    IN  IF lp < n /\ next = "\\" /\ lp + 2 < n /\ ByteAt(lex.source, lp + 2) = "'"
        THEN LET l2 == advance(advance(lex))
                 ch == EscapeChar(peek(l2))
                 l3 == advance(l2)
             IN  IF peek(l3) # "'"
                 THEN LexExit(l3, lex, "Unterminated char literal")
                 ELSE LexOut(advance(l3), Tok("TOK_CHAR", <<ch>>, lex))
        ELSE IF lp < n /\ next # "\\" /\ next # "'" /\ next # NUL
                /\ lp + 1 < n /\ ByteAt(lex.source, lp + 1) = "'"
        THEN LET l2 == advance(lex)
                 ch == peek(l2)
                 l3 == advance(l2)
             IN  IF peek(l3) # "'"
                 THEN LexExit(l3, lex, "Unterminated char literal")
                 ELSE LexOut(advance(l3), Tok("TOK_CHAR", <<ch>>, lex))
        ELSE LexOut(advance(lex), Tok("TOK_QUOTE", <<>>, lex))

\* The body of the string loop: a backslash skips the byte after it.
RECURSIVE StringBody(_)
StringBody(lex) ==
    IF peek(lex) # "\"" /\ peek(lex) # NUL
    THEN StringBody(advance(IF peek(lex) = "\\" THEN advance(lex) ELSE lex))
    ELSE lex

\* The string branch; lex stands at the opening quote.
LexString(lex) ==
    LET l1 == advance(lex)
        l2 == StringBody(l1)
    IN  LexOut(advance(l2), Tok("TOK_STRING", Slice(lex.source, l1.pos, l2.pos), lex))

\* A number or symbol token: the run of bytes of S after skip prefix bytes.
LexRun(lex, skip, S, type) ==
    LET l1 == IF skip = 2 THEN advance(advance(lex))
              ELSE IF skip = 1 THEN advance(lex) ELSE lex
        l2 == AdvanceWhileIn(l1, S)
    IN  LexOut(l2, Tok(type, Slice(lex.source, lex.pos, l2.pos), lex))

lexer_next_token(lex_in) ==
    LET lex == SkipComments(skip_whitespace(lex_in))
        c   == peek(lex)
        c1  == peek_ahead(lex, 1)
    IN  IF c = NUL THEN LexOut(lex, Tok("TOK_EOF", <<>>, lex))
        ELSE IF c = "-" /\ c1 = ">"
        THEN LexOut(advance(advance(lex)), Tok("TOK_ARROW", <<"-", ">">>, lex))
        ELSE IF c = "(" THEN LexOut(advance(lex), Tok("TOK_LPAREN", <<>>, lex))
        ELSE IF c = ")" THEN LexOut(advance(lex), Tok("TOK_RPAREN", <<>>, lex))
        ELSE IF c = "[" THEN LexOut(advance(lex), Tok("TOK_LBRACKET", <<>>, lex))
        ELSE IF c = "]" THEN LexOut(advance(lex), Tok("TOK_RBRACKET", <<>>, lex))
        ELSE IF c = "'" THEN LexTick(lex)
        ELSE IF c = "\"" THEN LexString(lex)
        ELSE IF c = "0" /\ c1 \in {"x", "X"}
        THEN LexRun(lex, 2, HexDigits, "TOK_NUMBER")
        ELSE IF c = "0" /\ c1 \in {"b", "B"}
        THEN LexRun(lex, 2, {"0", "1"}, "TOK_NUMBER")
        ELSE IF c = "0" /\ c1 \in {"o", "O"}
        THEN LexRun(lex, 2, {"0", "1", "2", "3", "4", "5", "6", "7"}, "TOK_NUMBER")
        ELSE IF c = "-" /\ is_digit(c1)
        THEN LexRun(lex, 1, Digits \cup {"."}, "TOK_NUMBER")
        ELSE IF is_digit(c)
        THEN LexRun(lex, 0, Digits \cup {"."}, "TOK_NUMBER")
        ELSE IF is_symbol_char(c)
        THEN LexRun(lex, 0, SymbolChars, "TOK_SYMBOL")
        ELSE LexExit(lex, lex, "Unexpected character")

----
\* Literal type inference (types.c)

\* A NULL char pointer (no byte string is equal to it).
NullStr == <<NULL>>

\* literal_str[i], i counted from 0
LitAt(literal_str, i) == ByteAt(literal_str, i)

\* The scan for '.', 'e' or 'E'.
HasFloatMark(literal_str) ==
    \E i \in 1..Len(literal_str) : literal_str[i] \in {".", "e", "E"}

\* A double is kept as the decimal mant * 10^(-scale), mant without trailing
\* zeros when scale > 0; it is integer-valued exactly when scale = 0.
Dbl(mant, scale) == [mant |-> mant, scale |-> scale]

RECURSIVE Normalise(_)
Normalise(v) ==
    IF v.scale > 0 /\ v.mant % 10 = 0
    THEN Normalise(Dbl(v.mant \div 10, v.scale - 1))
    ELSE v

\* value == (long long)value
IsIntegerValued(v) == Normalise(v).scale = 0

\* An inference that scans for the float marks before the prefixes.
infer_literal_type_marksFirst(value, literal_str) ==
    IF literal_str = NullStr
    THEN IF IsIntegerValued(value) THEN "Int" ELSE "Float"
    ELSE IF HasFloatMark(literal_str) THEN "Float"
    ELSE IF LitAt(literal_str, 0) = "0" /\ LitAt(literal_str, 1) \in {"x", "X"} THEN "Hex"
    ELSE IF LitAt(literal_str, 0) = "0" /\ LitAt(literal_str, 1) \in {"b", "B"} THEN "Bin"
    ELSE IF LitAt(literal_str, 0) = "0" /\ LitAt(literal_str, 1) \in {"o", "O"} THEN "Oct"
    ELSE "Int"

infer_literal_type(value, literal_str) ==
    IF literal_str = NullStr
    THEN IF IsIntegerValued(value) THEN "Int" ELSE "Float"
    ELSE IF LitAt(literal_str, 0) = "0" /\ LitAt(literal_str, 1) \in {"x", "X"} THEN "Hex"
    ELSE IF LitAt(literal_str, 0) = "0" /\ LitAt(literal_str, 1) \in {"b", "B"} THEN "Bin"
    ELSE IF LitAt(literal_str, 0) = "0" /\ LitAt(literal_str, 1) \in {"o", "O"} THEN "Oct"
    ELSE IF HasFloatMark(literal_str) THEN "Float"
    ELSE "Int"

----
\* Number tokens to values (reader.c, parse_number_str)

DigitVal(c) ==
    CASE c = "0" -> 0 [] c = "1" -> 1 [] c = "2" -> 2 [] c = "3" -> 3
      [] c = "4" -> 4 [] c = "5" -> 5 [] c = "6" -> 6 [] c = "7" -> 7
      [] c = "8" -> 8 [] c = "9" -> 9
      [] c \in {"a", "A"} -> 10 [] c \in {"b", "B"} -> 11
      [] c \in {"c", "C"} -> 12 [] c \in {"d", "D"} -> 13
      [] c \in {"e", "E"} -> 14 [] c \in {"f", "F"} -> 15
      [] OTHER -> 99

\* The value of the longest prefix of s made of digits of the base, from acc.
RECURSIVE DigitsVal(_, _, _)
DigitsVal(s, base, acc) ==
    IF s = <<>> \/ DigitVal(Head(s)) >= base THEN acc
    ELSE DigitsVal(Tail(s), base, acc * base + DigitVal(Head(s)))

\* The number of leading digits of the base in s.
RECURSIVE DigitsLen(_, _)
DigitsLen(s, base) ==
    IF s = <<>> \/ DigitVal(Head(s)) >= base THEN 0
    ELSE 1 + DigitsLen(Tail(s), base)

Drop(s, n) == SubSeq(s, n + 1, Len(s))

\* strtol(s, NULL, base) on the digits that follow a two-byte prefix
strtol_after_prefix(s, base) == Dbl(DigitsVal(Drop(s, 2), base, 0), 0)

\* atof(s) on a lexeme of an optional '-', digits and dots
atof(s) ==
    LET neg  == s # <<>> /\ Head(s) = "-"
        body == IF neg THEN Tail(s) ELSE s
        ilen == DigitsLen(body, 10)
        ival == DigitsVal(body, 10, 0)
        rest == Drop(body, ilen)
        frac == IF rest # <<>> /\ Head(rest) = "." THEN Tail(rest) ELSE <<>>
        flen == DigitsLen(frac, 10)
        mant == DigitsVal(frac, 10, ival)
        v    == Normalise(Dbl(mant, flen))
    IN  IF neg THEN Dbl(0 - v.mant, v.scale) ELSE v

parse_number_str(s) ==
    IF LitAt(s, 0) = "0" /\ LitAt(s, 1) \in {"x", "X"} THEN strtol_after_prefix(s, 16)
    ELSE IF LitAt(s, 0) = "0" /\ LitAt(s, 1) \in {"b", "B"} THEN strtol_after_prefix(s, 2)
    ELSE IF LitAt(s, 0) = "0" /\ LitAt(s, 1) \in {"o", "O"} THEN strtol_after_prefix(s, 8)
    ELSE atof(s)

\* ast_new_number(parse_number_str(tok.value), tok.value) and the type that
\* lowering infers for that node.
NumberNode(lexeme) ==
    LET value == parse_number_str(lexeme)
    IN  [value |-> value, literal_str |-> lexeme,
         type |-> infer_literal_type(value, lexeme)]

NoNumber == [value |-> Dbl(0, 0), literal_str |-> NullStr, type |-> "Unknown"]

\* No source being read.
NoRead == [lex |-> lexer_init(<<>>),
           tok |-> [type |-> "NONE", value |-> <<>>, line |-> 1, column |-> 1],
           exit |-> "no", number |-> NoNumber]

----
\* Declared parameters and the Types made for them

TypeNames == {"Int", "Float", "Char", "String", "Bool", "Hex", "Bin", "Oct"}

\* The kind a declared type name stands for; an absent name is Float.
ParamKind(type_name) == IF type_name = NULL THEN "Float" ELSE type_name

\* env_params built from the declared parameters ps, from the i-th on; the
\* k-th parameter's Type is cell Len(h.cells) + k of the result of ParamTypes.
RECURSIVE ParamTypes(_, _, _)
ParamTypes(h, ps, i) ==
    IF i > Len(ps) THEN h
    ELSE ParamTypes(make_type(h, ParamKind(ps[i].type_name)), ps, i + 1)

EnvParams(h, ps) ==
    [k \in 1..Len(ps) |-> [name |-> ps[k].name, type |-> Len(h.cells) + k]]

----
\* Syntax trees (reader.h).  Every node carries every field; the fields a
\* node type does not use keep the values below.

AstNode(type) ==
    [type |-> type, symbol |-> NULL, string |-> NULL, character |-> NULL,
     number |-> Dbl(0, 0), literal_str |-> NullStr, items |-> <<>>,
     params |-> <<>>, return_type |-> NULL, docstring |-> NULL, body |-> <<>>,
     line |-> 0, column |-> 0, end_column |-> 0]

ast_new_number(value, literal) ==
    [AstNode("AST_NUMBER") EXCEPT !.number = value, !.literal_str = literal]

ast_new_symbol(name) == [AstNode("AST_SYMBOL") EXCEPT !.symbol = name]

ast_new_string(str) == [AstNode("AST_STRING") EXCEPT !.string = str]

ast_new_char(c) == [AstNode("AST_CHAR") EXCEPT !.character = c]

ast_new_list == AstNode("AST_LIST")

ast_list_append(list, item) == [list EXCEPT !.items = Append(@, item)]

ast_new_lambda(params, return_type, docstring, body) ==
    [AstNode("AST_LAMBDA") EXCEPT !.params = params, !.return_type = return_type,
                                  !.docstring = docstring, !.body = <<body>>]

\* ast->line = line; ast->column = column; ast->end_column = end_column
At(ast, line, column, end_column) ==
    [ast EXCEPT !.line = line, !.column = column, !.end_column = end_column]

\* The list node of the given items.
ListOf(items) == [AstNode("AST_LIST") EXCEPT !.items = items]

\* The number node parse_expr builds from a lexeme.
NumberOf(lexeme) == ast_new_number(parse_number_str(lexeme), lexeme)

\* Index of the first "::" symbol among the items, 0 if none.
AnnotIdx(items) ==
    IF \E i \in 1..Len(items) : items[i].type = "AST_SYMBOL" /\ items[i].symbol = "::"
    THEN CHOOSE i \in 1..Len(items) :
            /\ items[i].type = "AST_SYMBOL" /\ items[i].symbol = "::"
            /\ \A j \in 1..(i - 1) :
                  ~(items[j].type = "AST_SYMBOL" /\ items[j].symbol = "::")
    ELSE 0

\* The kind of the Type that parse_type_annotation makes, NULL if it makes none.
parse_type_annotation(ast) ==
    IF ast.type # "AST_LIST" THEN NULL
    ELSE LET i == AnnotIdx(ast.items)
         IN  IF i = 0 \/ i + 1 > Len(ast.items) THEN NULL
             ELSE IF ast.items[i + 1].type # "AST_SYMBOL" THEN NULL
             ELSE IF ast.items[i + 1].symbol \in TypeNames THEN ast.items[i + 1].symbol
             ELSE NULL

----
\* Batch lowering (main.c).  ctx is the CodegenContext together with the
\* process state that the lowering touches:
\*   env     ctx->env, the table lookups and inserts go to
\*   frames  the saved_env of every function definition being lowered,
\*           outermost first (the C locals of the active codegen_expr calls)
\*   heap    the Type records
\*   nvals   the number of LLVM values made so far; a handle is its number
\*   exit    "no" while the process runs, else why it ended
\*   trace   the env_lookup calls of the current top-level form
\*   oracle  what an undefined use does in this run: the kind a read of a
\*           freed Type yields, and whether a second free aborts

UBKinds == {"Stale", "Float", "Fn", "Garbage"}

Oracles == [kind : UBKinds, abort : BOOLEAN]

DefaultOracle == [kind |-> "Stale", abort |-> TRUE]

Res(ctx, type, value) == [ctx |-> ctx, type |-> type, value |-> value]

\* fprintf(stderr, ...); exit(1);
Fatal(ctx, msg) == Res([ctx EXCEPT !.exit = msg], 0, 0)

\* An LLVMBuild* / LLVMConst* / LLVMAddFunction call; the handle is nvals of
\* the result.
NewValue(ctx) == [ctx EXCEPT !.nvals = @ + 1]

\* type_int(), type_float(), ...; the pointer is NewestType of the result heap.
Alloc(ctx, kind) == [ctx EXCEPT !.heap = make_type(@, kind)]

\* t->kind as this run reads it.
KindRead(ctx, t) ==
    IF t = 0 THEN "Garbage"
    ELSE IF IsLive(ctx.heap, t) \/ ctx.oracle.kind = "Stale"
    THEN ctx.heap.cells[t].kind
    ELSE ctx.oracle.kind

\* The code reads the kinds of the Types ts.
Touch(ctx, ts) ==
    IF ctx.exit = "no" /\ \E t \in ts : t # 0 /\ ~IsLive(ctx.heap, t)
    THEN [ctx EXCEPT !.heap.ub = Append(@, "use after free")]
    ELSE ctx

\* The heap after calls to free: a second free of a cell aborts the run or
\* goes unnoticed.
Freed(ctx, h) ==
    IF Len(h.ub) > Len(ctx.heap.ub) /\ ctx.oracle.abort
    THEN [ctx EXCEPT !.heap = h, !.exit = "abort"]
    ELSE [ctx EXCEPT !.heap = h]

\* The entry of name in the saved frames, innermost first.
RECURSIVE OuterFind(_, _, _)
OuterFind(frames, name, i) ==
    IF i = 0 THEN NullEntry
    ELSE IF find(frames[i], name).kind # "NONE" THEN find(frames[i], name)
    ELSE OuterFind(frames, name, i - 1)

\* env_lookup(ctx->env, name), noted in the trace.
Lookup(ctx, name, use) ==
    [ctx EXCEPT !.trace = Append(@,
        [name  |-> name, use |-> use, depth |-> Len(ctx.frames),
         got   |-> env_lookup(ctx.env, name),
         outer |-> OuterFind(ctx.frames, name, Len(ctx.frames))])]

\* A result that carries a new value and the newest Type of ctx.
Fresh(ctx) == Res(NewValue(ctx), NewestType(ctx.heap), ctx.nvals + 1)

\* A result that carries a new value and the Type t.
Valued(ctx, t) == Res(NewValue(ctx), t, ctx.nvals + 1)

\* ctx after an env_insert* call that gave r = [heap, env] for ctx->env.
WithEnv(ctx, r) == Freed([ctx EXCEPT !.env = r.env], r.heap)

RECURSIVE codegen_expr(_, _)
RECURSIVE BinaryLoop(_, _, _, _, _)
RECURSIVE CallArgs(_, _, _)
RECURSIVE BindParams(_, _, _)

CgNumber(ctx, ast) ==
    Fresh(Alloc(ctx, infer_literal_type(ast.number, ast.literal_str)))

CgChar(ctx, ast) == Fresh(Alloc(ctx, "Char"))

CgString(ctx, ast) == Fresh(Alloc(ctx, "String"))

\* LLVMBuildLoad2(builder, type_to_llvm(ctx, entry->type), entry->value, name)
LoadEntry(ctx, entry) ==
    IF entry.type = 0 \/ entry.value = 0 THEN Fatal(ctx, "segfault")
    ELSE Valued(Touch(ctx, {entry.type}), entry.type)

\* The use of the entry that a lookup in value position gave.
LoadFound(ctx, entry) ==
    IF entry.kind = "NONE" THEN Fatal(ctx, "unbound variable")
    ELSE LoadEntry(ctx, entry)

CgSymbol(ctx, ast) ==
    LoadFound(Lookup(ctx, ast.symbol, "load"), env_lookup(ctx.env, ast.symbol))

\* (define name value), value not a lambda: after env_insert gave r, the
\* printf of type_to_string(final_type).
DefineVarDone(ctx, r, final_type, value) ==
    Res(Touch(WithEnv(ctx, r), {final_type}), final_type, value)

\* ctx holds the alloca as its newest value.
DefineVarInsert(ctx, var_name, final_type, value) ==
    DefineVarDone(ctx, env_insert(ctx.heap, ctx.env, var_name, final_type, ctx.nvals),
                  final_type, value)

\* type_to_llvm(final_type), the alloca, the conversion tests, the store
DefineVarStore(ctx, var_name, explicit_type, inferred_type, value) ==
    DefineVarInsert(
        NewValue(Touch(ctx, {inferred_type,
                             IF explicit_type # 0 THEN explicit_type ELSE inferred_type})),
        var_name,
        IF explicit_type # 0 THEN explicit_type ELSE inferred_type,
        value)

\* The Type made when the value carries none.
FallbackKind(value_expr) ==
    IF value_expr.type = "AST_CHAR" THEN "Char"
    ELSE IF value_expr.type = "AST_STRING" THEN "String"
    ELSE "Float"

DefineVarBind(v, var_name, explicit_type, value_expr) ==
    IF v.ctx.exit # "no" THEN v
    ELSE IF v.type # 0
    THEN DefineVarStore(v.ctx, var_name, explicit_type, v.type, v.value)
    ELSE DefineVarStore(Alloc(v.ctx, FallbackKind(value_expr)), var_name,
                        explicit_type, NewestType(v.ctx.heap) + 1, v.value)

CgDefineVar(ctx, var_name, explicit_type, value_expr) ==
    DefineVarBind(codegen_expr(ctx, value_expr), var_name, explicit_type, value_expr)

\* One parameter: ctx holds its alloca as the newest value.
BindParam(ctx, param) ==
    WithEnv(ctx, env_insert(type_clone(ctx.heap, param.type), ctx.env, param.name,
                            ClonedType(ctx.heap, param.type), ctx.nvals))

\* env_insert of the parameters, from the i-th on, into the function's table
BindParams(ctx, env_params, i) ==
    IF i > Len(env_params) \/ ctx.exit # "no" THEN ctx
    ELSE BindParams(BindParam(NewValue(ctx), env_params[i]), env_params, i + 1)

\* printf(") -> %s\n", type_to_string(ret_type)) and the dummy result
LambdaDone(ctx, ret_type) == Fresh(Alloc(Touch(ctx, {ret_type}), "Float"))

\* env_insert_func(ctx->env, var_name, env_params, ..., ret_type, func, doc)
LambdaInsert(ctx, var_name, lambda, env_params, ret_type, func) ==
    IF ctx.exit # "no" THEN Res(ctx, 0, 0)
    ELSE LambdaDone(
            WithEnv(ctx, env_insert_func(ctx.heap, ctx.env, var_name, env_params,
                                         ret_type, func, lambda.docstring)),
            ret_type)

\* env_free(ctx->env); ctx->env = saved_env;
PopFrame(ctx) ==
    Freed([ctx EXCEPT !.env = ctx.frames[Len(ctx.frames)],
                      !.frames = SubSeq(@, 1, Len(@) - 1)],
          env_free(ctx.heap, ctx.env))

\* After the body: the return conversion, LLVMBuildRet, the scope pop.
LambdaLeave(body_result, var_name, lambda, env_params, ret_type, func) ==
    IF body_result.ctx.exit # "no" THEN body_result
    ELSE LambdaInsert(
            PopFrame(NewValue(Touch(body_result.ctx, {body_result.type, ret_type}))),
            var_name, lambda, env_params, ret_type, func)

\* ctx holds ret_type as its newest Type and the function as its newest
\* value.  saved_env = ctx->env; ctx->env = env_create(); the parameters; the
\* body.
LambdaEnter(ctx, var_name, lambda, env_params) ==
    LambdaLeave(
        codegen_expr(
            BindParams([ctx EXCEPT !.env = env_create, !.frames = Append(@, ctx.env)],
                       env_params, 1),
            lambda.body[1]),
        var_name, lambda, env_params, NewestType(ctx.heap), ctx.nvals)

\* (define name (lambda ...)), which (define (name ...) body) is read as
CgDefineLambda(ctx, var_name, lambda) ==
    IF \E i \in 1..Len(lambda.params) :
           ParamKind(lambda.params[i].type_name) \notin TypeNames
    THEN Fatal(ctx, "unknown type")
    ELSE IF ParamKind(lambda.return_type) \notin TypeNames
    THEN Fatal(ctx, "unknown return type")
    ELSE LambdaEnter(
            NewValue(Alloc([ctx EXCEPT !.heap = ParamTypes(@, lambda.params, 1)],
                           ParamKind(lambda.return_type))),
            var_name, lambda, EnvParams(ctx.heap, lambda.params))

\* var_name of a define, NULL if there is none
DefineName(name_expr) ==
    IF name_expr.type = "AST_SYMBOL" THEN name_expr.symbol
    ELSE IF name_expr.type = "AST_LIST" /\ Len(name_expr.items) > 0
            /\ name_expr.items[1].type = "AST_SYMBOL"
    THEN name_expr.items[1].symbol
    ELSE NULL

\* ctx holds explicit_type, if there is one, as its newest Type.
DefineValue(ctx, name_expr, value_expr, explicit_type) ==
    IF name_expr.type = "AST_LIST"
       /\ ~(explicit_type # 0 /\ Len(name_expr.items) > 0)
    THEN Fatal(ctx, "define name must be symbol or type annotation")
    ELSE IF name_expr.type \notin {"AST_LIST", "AST_SYMBOL"}
    THEN Fatal(ctx, "define name must be symbol or type annotation")
    ELSE IF DefineName(name_expr) = NULL THEN Fatal(ctx, "define invalid name format")
    ELSE IF value_expr.type = "AST_LAMBDA"
    THEN CgDefineLambda(ctx, DefineName(name_expr), value_expr)
    ELSE CgDefineVar(ctx, DefineName(name_expr), explicit_type, value_expr)

CgDefine(ctx, ast) ==
    IF Len(ast.items) < 3 THEN Fatal(ctx, "define requires at least 2 arguments")
    ELSE IF parse_type_annotation(ast.items[2]) # NULL
    THEN DefineValue(Alloc(ctx, parse_type_annotation(ast.items[2])),
                     ast.items[2], ast.items[3], NewestType(ctx.heap) + 1)
    ELSE DefineValue(ctx, ast.items[2], ast.items[3], 0)

IsQuoted(arg) ==
    /\ arg.type = "AST_LIST" /\ Len(arg.items) > 0
    /\ arg.items[1].type = "AST_SYMBOL" /\ arg.items[1].symbol = "quote"

\* The printf of a lowered argument, chosen by its kind.
ShowExpr(a) == Res(Touch(a.ctx, {a.type}), a.type, a.value)

ShowArg(ctx, arg) ==
    IF IsQuoted(arg) \/ arg.type \in {"AST_STRING", "AST_CHAR"}
    THEN Res(NewValue(ctx), 0, 0)
    ELSE IF arg.type = "AST_SYMBOL"
    THEN LoadFound(Lookup(ctx, arg.symbol, "show"), env_lookup(ctx.env, arg.symbol))
    ELSE ShowExpr(codegen_expr(ctx, arg))

ShowDone(shown) ==
    IF shown.ctx.exit # "no" THEN shown ELSE Fresh(Alloc(shown.ctx, "Float"))

CgShow(ctx, ast) ==
    IF Len(ast.items) # 2 THEN Fatal(ctx, "show requires 1 argument")
    ELSE ShowDone(ShowArg(ctx, ast.items[2]))

\* ctx holds the instruction of the step as its newest value.
LoopNext(ctx, ast, i, new_result_type) ==
    BinaryLoop(ctx, ast, i + 1, new_result_type, ctx.nvals)

\* The checks and the promotion of one step; lk, rk are the kinds as read.
LoopFold(ctx, ast, i, result_type, lk, rk) ==
    IF FoldStep(lk, rk).err = "nonnumeric" THEN Fatal(ctx, "cannot perform arithmetic")
    ELSE IF FoldStep(lk, rk).err = "mix" THEN Fatal(ctx, "cannot mix")
    ELSE IF ~type_is_float(lk) /\ ~type_is_float(rk)
            /\ lk # "Char" /\ rk # "Char" /\ lk = rk
    THEN LoopNext(NewValue(ctx), ast, i, result_type)
    ELSE LoopNext(NewValue(Alloc(ctx, FoldStep(lk, rk).type)), ast, i,
                  NewestType(ctx.heap) + 1)

LoopRead(ctx, ast, i, result_type, rhs_type) ==
    LoopFold(ctx, ast, i, result_type, KindRead(ctx, result_type),
             KindRead(ctx, rhs_type))

LoopStep(rhs, ast, i, result_type) ==
    IF rhs.ctx.exit # "no" THEN rhs
    ELSE LoopRead(Touch(rhs.ctx, {rhs.type, result_type}), ast, i, result_type,
                  rhs.type)

\* The binary loop from item i on (the operator is item 1).
BinaryLoop(ctx, ast, i, result_type, result_value) ==
    IF i > Len(ast.items) THEN Res(ctx, result_type, result_value)
    ELSE LoopStep(codegen_expr(ctx, ast.items[i]), ast, i, result_type)

\* The seed test, unary minus, reciprocal, else the loop; k is the kind read.
ArithSeed(ctx, ast, first_type, first_value, k) ==
    IF ~type_is_numeric(k) THEN Fatal(ctx, "cannot perform arithmetic")
    ELSE IF ast.items[1].symbol = "-" /\ Len(ast.items) = 2
    THEN Valued(ctx, first_type)
    ELSE IF ast.items[1].symbol = "/" /\ Len(ast.items) = 2
    THEN IF type_is_float(k) THEN Valued(ctx, first_type)
         ELSE Fresh(Alloc(ctx, "Float"))
    ELSE BinaryLoop(ctx, ast, 3, first_type, first_value)

ArithRead(ctx, ast, first_type, first_value) ==
    ArithSeed(ctx, ast, first_type, first_value, KindRead(ctx, first_type))

ArithFirst(first, ast) ==
    IF first.ctx.exit # "no" THEN first
    ELSE ArithRead(Touch(first.ctx, {first.type}), ast, first.type, first.value)

CgArith(ctx, ast) ==
    IF Len(ast.items) < 2 THEN Fatal(ctx, "requires at least 1 argument")
    ELSE ArithFirst(codegen_expr(ctx, ast.items[2]), ast)

\* The conversion of one argument to the declared parameter type.
ArgConv(ctx, expected, actual) ==
    IF expected # 0 /\ actual # 0
    THEN NewValue(Touch(ctx, {expected, actual}))
    ELSE ctx

\* entry->params[i].type
ExpectedType(entry, i) == IF i <= Len(entry.params) THEN entry.params[i].type ELSE 0

\* The entry pointer found before the loop is the entry of that name still.
CallArg(arg_result, ast, i) ==
    IF arg_result.ctx.exit # "no" THEN arg_result
    ELSE CallArgs(ArgConv(arg_result.ctx,
                          ExpectedType(find(arg_result.ctx.env, ast.items[1].symbol), i),
                          arg_result.type),
                  ast, i + 1)

\* The argument loop of a user-function call, from the i-th argument on.
CallArgs(ctx, ast, i) ==
    IF i > Len(ast.items) - 1 THEN Res(ctx, 0, 0)
    ELSE CallArg(codegen_expr(ctx, ast.items[i + 1]), ast, i)

\* LLVMBuildCall2; result.type = entry->return_type
CallDone(a, ast) ==
    IF a.ctx.exit # "no" THEN a
    ELSE Valued(a.ctx, find(a.ctx.env, ast.items[1].symbol).return_type)

CallEntry(ctx, entry, ast) ==
    IF entry.kind = "ENV_VAR" THEN Fatal(ctx, "is a variable, not a function")
    ELSE IF entry.kind = "ENV_FUNC"
    THEN IF Len(ast.items) - 1 # entry.param_count
         THEN Fatal(ctx, "wrong number of arguments")
         ELSE CallDone(CallArgs(ctx, ast, 1), ast)
    ELSE Fatal(ctx, "unknown function")

CgCall(ctx, ast) ==
    CallEntry(Lookup(ctx, ast.items[1].symbol, "call"),
              env_lookup(ctx.env, ast.items[1].symbol), ast)

CgList(ctx, ast) ==
    IF Len(ast.items) = 0 THEN Fatal(ctx, "empty list not supported")
    ELSE IF ast.items[1].type # "AST_SYMBOL"
    THEN Fatal(ctx, "function call requires symbol in head position")
    ELSE IF ast.items[1].symbol = "define" THEN CgDefine(ctx, ast)
    ELSE IF ast.items[1].symbol = "show" THEN CgShow(ctx, ast)
    ELSE IF ast.items[1].symbol \in {"+", "-", "*", "/"} THEN CgArith(ctx, ast)
    ELSE CgCall(ctx, ast)

codegen_expr(ctx, ast) ==
    IF ctx.exit # "no" THEN Res(ctx, 0, 0)
    ELSE CASE ast.type = "AST_NUMBER" -> CgNumber(ctx, ast)
           [] ast.type = "AST_CHAR"   -> CgChar(ctx, ast)
           [] ast.type = "AST_SYMBOL" -> CgSymbol(ctx, ast)
           [] ast.type = "AST_STRING" -> CgString(ctx, ast)
           [] ast.type = "AST_LIST"   -> CgList(ctx, ast)
           [] OTHER                   -> Fatal(ctx, "unknown AST type")

\* Interactive lowering (repl.c).  ctx is the REPLContext together with the
\* process state that the lowering of a line touches: env, heap, exit, trace,
\* oracle and frames as in batch lowering (frames stays empty), and
\*   globals  the variable globals of the module in creation order: name, the
\*            LLVM type ty the global was created with, and what its memory
\*            holds: the LLVM type rep of the value stored last and the line
\*            whose wrapper stored it (line 0: the null initialiser)
\*   code     the loads and stores emitted into the wrapper so far
\*   bad      the wrapper holds IR that LLVMVerifyFunction rejects
\*   typed    the LLVM of this build has typed pointers (before LLVM 15)
\* The value of a result is the LLVM type of the LLVMValueRef, "NULL" for a
\* NULL one.  type_is_numeric, type_is_integer and type_is_float of repl.c
\* are those of main.c.

type_to_llvm(kind) ==
    CASE kind \in {"Int", "Hex", "Bin", "Oct"} -> "i64"
      [] kind = "Float"  -> "double"
      [] kind = "Char"   -> "i8"
      [] kind = "String" -> "ptr"
      [] kind = "Bool"   -> "i1"
      [] OTHER           -> "double"

\* Bytes of memory an access of the LLVM type covers.
Width(ty) == IF ty \in {"i8", "i1"} THEN 1 ELSE 8

\* fprintf(stderr, "Error: ..."); return NULL;
Null(ctx) == Res(ctx, 0, "NULL")

\* A result of the newest Type of ctx.
Made(ctx, value) == Res(ctx, NewestType(ctx.heap), value)

Failed(r) == r.value = "NULL" \/ r.ctx.exit # "no"

\* LLVMGetNamedGlobal(ctx->module, name): the index of the global, 0 if none
GetNamedGlobal(globals, name) ==
    IF \E g \in 1..Len(globals) : globals[g].name = name
    THEN CHOOSE g \in 1..Len(globals) : globals[g].name = name
    ELSE 0

\* LLVMAddGlobal and LLVMSetInitializer(global, LLVMConstNull(llvm_type))
AddGlobal(ctx, name, ty) ==
    [ctx EXCEPT !.globals = Append(@, [name |-> name, ty |-> ty, rep |-> ty,
                                       line |-> 0])]

\* LLVMBuildLoad2 / LLVMBuildStore on global g with a value of LLVM type rep;
\* with typed pointers the verifier rejects a type other than the global's.
Emit(ctx, op, g, rep) ==
    [ctx EXCEPT !.code = Append(@, [op |-> op, g |-> g, rep |-> rep]),
                !.bad = @ \/ (ctx.typed /\ rep # ctx.globals[g].ty)]

DigitChar(d) == <<"0", "1", "2", "3", "4", "5", "6", "7", "8", "9">>[d + 1]

RECURSIVE Decimal(_)
Decimal(n) ==
    IF n < 10 THEN <<DigitChar(n)>>
    ELSE Append(Decimal(n \div 10), DigitChar(n % 10))

RECURSIVE Pow10(_)
Pow10(k) == IF k = 0 THEN 1 ELSE 10 * Pow10(k - 1)

\* The k low decimal digits of n, leading zeros kept.
RECURSIVE LowDigits(_, _)
LowDigits(n, k) ==
    IF k = 0 THEN <<>>
    ELSE Append(LowDigits(n \div 10, k - 1), DigitChar(n % 10))

\* The precision of a %g conversion without one
GPrecision == 6

\* m * 10^e with the trailing zeros of m moved into e
RECURSIVE StripZeros(_, _)
StripZeros(m, e) ==
    IF m # 0 /\ m % 10 = 0 THEN StripZeros(m \div 10, e + 1)
    ELSE [m |-> m, e |-> e]

\* m * 10^e rounded to GPrecision significant digits, ties to even
RoundSig(m, e) ==
    LET k    == Len(Decimal(m)) - GPrecision
        q    == m \div Pow10(k)
        r    == m % Pow10(k)
        half == 5 * Pow10(k - 1)
    IN  IF k <= 0 THEN StripZeros(m, e)
        ELSE IF r > half \/ (r = half /\ q % 2 = 1) THEN StripZeros(q + 1, e + k)
        ELSE StripZeros(q, e + k)

Zeros(k) == [i \in 1..k |-> "0"]

\* The %g text of m * 10^e, m > 0 of at most GPrecision digits without
\* trailing zeros: the exponent style when the decimal exponent X is below
\* -4 or not below the precision, the plain style otherwise.
GText(m, e) ==
    LET D  == Decimal(m)
        nd == Len(D)
        X  == nd - 1 + e
    IN  IF m = 0 THEN <<"0">>
        ELSE IF X < -4 \/ X >= GPrecision
        THEN <<D[1]>> \o (IF nd > 1 THEN <<".">> \o SubSeq(D, 2, nd) ELSE <<>>)
             \o <<"e", IF X < 0 THEN "-" ELSE "+">>
             \o (IF X < 0 THEN LowDigits(0 - X, 2) ELSE LowDigits(X, 2))
        ELSE IF e >= 0 THEN D \o Zeros(e)
        ELSE IF X >= 0 THEN SubSeq(D, 1, nd + e) \o <<".">> \o SubSeq(D, nd + e + 1, nd)
        ELSE <<"0", ".">> \o Zeros(0 - X - 1) \o D

\* snprintf(tmp, sizeof(tmp), "%g", number) and printf("%g", number)
GRounded(v) ==
    RoundSig(IF v.mant < 0 THEN 0 - v.mant ELSE v.mant, 0 - v.scale)

snprintf_g(number) ==
    (IF Normalise(number).mant < 0 THEN <<"-">> ELSE <<>>)
    \o GText(GRounded(Normalise(number)).m, GRounded(Normalise(number)).e)

\* The literal_str an arithmetic operand is lowered with.
OperandStr(item) ==
    IF item.type = "AST_NUMBER" THEN snprintf_g(item.number) ELSE NullStr

check_arity(entry, argc) ==
    IF entry.kind = "NONE" THEN TRUE
    ELSE IF entry.arity_min < 0 THEN TRUE
    ELSE IF argc < entry.arity_min THEN FALSE
    ELSE IF entry.arity_max >= 0 /\ argc > entry.arity_max THEN FALSE
    ELSE TRUE

RECURSIVE repl_codegen_expr(_, _, _)
RECURSIVE ReplLoop(_, _, _, _, _)
RECURSIVE ReplCallArgs(_, _, _)

\* ctx holds num_type as its newest Type.
ReplNumberValue(ctx) ==
    Made(ctx, IF type_is_float(ctx.heap.cells[NewestType(ctx.heap)].kind)
              THEN "double" ELSE "i64")

ReplNumber(ctx, ast, literal_str) ==
    ReplNumberValue(Alloc(ctx, infer_literal_type(ast.number, literal_str)))

ReplChar(ctx, ast) == Made(Alloc(ctx, "Char"), "i8")

ReplString(ctx, ast) == Made(Alloc(ctx, "String"), "ptr")

\* LLVMBuildLoad2(builder, type_to_llvm(ctx, entry->type), entry->value, name)
ReplLoad(ctx, entry) ==
    Res(Emit(Touch(ctx, {entry.type}), "load", entry.value,
             type_to_llvm(KindRead(ctx, entry.type))),
        entry.type, type_to_llvm(KindRead(ctx, entry.type)))

\* if (!entry || entry->kind != ENV_VAR) "unbound variable"
ReplFound(ctx, entry) ==
    IF entry.kind # "ENV_VAR" THEN Null(ctx) ELSE ReplLoad(ctx, entry)

ReplSymbol(ctx, ast) ==
    ReplFound(Lookup(ctx, ast.symbol, "load"), env_lookup(ctx.env, ast.symbol))

ReplQuote(ctx, ast) ==
    IF Len(ast.items) - 1 # 1 THEN Null(ctx)
    ELSE Made(Alloc(ctx, "Float"), "double")

\* The LLVM type of stored: value after the conversion to the final type;
\* fk and ik are the kinds of final_type and inferred as read.
StoredRep(fk, ik, rep) ==
    IF type_is_integer(fk) /\ type_is_float(ik) THEN "i64"
    ELSE IF type_is_float(fk) /\ type_is_integer(ik) THEN "double"
    ELSE IF fk = "Char" /\ ik # "Char"
    THEN IF type_is_float(ik) THEN "i8"
         ELSE IF type_is_integer(ik) THEN "i8"
         ELSE rep
    ELSE rep

\* After env_insert gave r: the printf of type_to_string(final_type).
ReplDefineDone(ctx, r, final_type, stored) ==
    Res(Touch(WithEnv(ctx, r), {final_type}), final_type, stored)

\* LLVMBuildStore(builder, stored, global); env_insert(env, var_name,
\* final_type, global);
ReplDefineInsert(ctx, var_name, final_type, global, stored) ==
    ReplDefineDone(Emit(ctx, "store", global, stored),
                   env_insert(ctx.heap, ctx.env, var_name, final_type, global),
                   final_type, stored)

\* ctx holds the global of the name.
ReplDefineGlobal(ctx, var_name, final_type, stored) ==
    ReplDefineInsert(ctx, var_name, final_type,
                     GetNamedGlobal(ctx.globals, var_name), stored)

\* llvm_type, the global found or added, the conversions
ReplDefineStore(ctx, var_name, final_type, inferred, rep) ==
    ReplDefineGlobal(
        IF GetNamedGlobal(ctx.globals, var_name) = 0
        THEN AddGlobal(Touch(ctx, {final_type, inferred}), var_name,
                       type_to_llvm(KindRead(ctx, final_type)))
        ELSE Touch(ctx, {final_type, inferred}),
        var_name, final_type,
        StoredRep(KindRead(ctx, final_type), KindRead(ctx, inferred), rep))

ReplDefineBind(v, var_name, explicit_type, value_expr) ==
    IF Failed(v) THEN Null(v.ctx)
    ELSE IF v.type # 0
    THEN ReplDefineStore(v.ctx, var_name,
                         IF explicit_type # 0 THEN explicit_type ELSE v.type,
                         v.type, v.value)
    ELSE ReplDefineStore(Alloc(v.ctx, FallbackKind(value_expr)), var_name,
                         IF explicit_type # 0 THEN explicit_type
                         ELSE NewestType(v.ctx.heap) + 1,
                         NewestType(v.ctx.heap) + 1, v.value)

ReplDefineValue(ctx, name_expr, value_expr, explicit_type) ==
    ReplDefineBind(
        repl_codegen_expr(ctx, value_expr,
                          IF value_expr.type = "AST_NUMBER"
                          THEN value_expr.literal_str ELSE NullStr),
        DefineName(name_expr), explicit_type, value_expr)

ReplDefine(ctx, ast) ==
    IF Len(ast.items) - 1 < 2 THEN Null(ctx)
    ELSE IF ast.items[2].type = "AST_SYMBOL"
    THEN ReplDefineValue(ctx, ast.items[2], ast.items[3], 0)
    ELSE IF ast.items[2].type # "AST_LIST" THEN Null(ctx)
    ELSE IF parse_type_annotation(ast.items[2]) = NULL THEN Null(ctx)
    ELSE IF ast.items[2].items[1].type # "AST_SYMBOL"
    THEN Null(Alloc(ctx, parse_type_annotation(ast.items[2])))
    ELSE ReplDefineValue(Alloc(ctx, parse_type_annotation(ast.items[2])),
                         ast.items[2], ast.items[3], NewestType(ctx.heap) + 1)

\* The choice of the formatter for a lowered argument.
ReplShowExpr(a) ==
    IF Failed(a) THEN Null(a.ctx) ELSE Res(Touch(a.ctx, {a.type}), a.type, a.value)

ReplShowArg(ctx, arg) ==
    IF IsQuoted(arg) \/ arg.type \in {"AST_STRING", "AST_CHAR"}
    THEN Res(ctx, 0, "void")
    ELSE IF arg.type = "AST_SYMBOL"
    THEN ReplFound(Lookup(ctx, arg.symbol, "show"), env_lookup(ctx.env, arg.symbol))
    ELSE ReplShowExpr(repl_codegen_expr(ctx, arg, NullStr))

ReplShowDone(shown) ==
    IF Failed(shown) THEN Null(shown.ctx)
    ELSE Made(Alloc(shown.ctx, "Float"), "double")

ReplShow(ctx, ast) ==
    IF ~check_arity(env_lookup(ctx.env, "show"), Len(ast.items) - 1) THEN Null(ctx)
    ELSE ReplShowDone(ReplShowArg(ctx, ast.items[2]))

\* ctx holds new_type; the instruction is an FAdd.. or an Add.. by its kind.
ReplLoopNext(ctx, ast, i, new_type) ==
    ReplLoop(ctx, ast, i + 1, new_type,
             IF type_is_float(KindRead(ctx, new_type)) THEN "double" ELSE "i64")

\* The checks and the promotion of one step; lk, rk are the kinds as read.
ReplLoopFold(ctx, ast, i, result_type, lk, rk) ==
    IF FoldStep(lk, rk).err # "none" THEN Null(ctx)
    ELSE IF ~type_is_float(lk) /\ ~type_is_float(rk)
            /\ lk # "Char" /\ rk # "Char" /\ lk = rk
    THEN ReplLoopNext(ctx, ast, i, result_type)
    ELSE ReplLoopNext(Alloc(ctx, FoldStep(lk, rk).type), ast, i,
                      NewestType(ctx.heap) + 1)

ReplLoopStep(rhs, ast, i, result_type) ==
    IF Failed(rhs) THEN Null(rhs.ctx)
    ELSE ReplLoopFold(Touch(rhs.ctx, {rhs.type, result_type}), ast, i, result_type,
                      KindRead(rhs.ctx, result_type), KindRead(rhs.ctx, rhs.type))

\* The binary fold from item i on (the operator is item 1).
ReplLoop(ctx, ast, i, result_type, result) ==
    IF i > Len(ast.items) THEN Res(ctx, result_type, result)
    ELSE ReplLoopStep(repl_codegen_expr(ctx, ast.items[i], OperandStr(ast.items[i])),
                      ast, i, result_type)

\* The seed test, unary minus, reciprocal, else the fold; k is the kind
\* read.  The unary minus of a Char subtracts an i8 from an i64 zero.
ReplArithSeed(ctx, ast, first_type, first, k) ==
    IF ~type_is_numeric(k) THEN Null(ctx)
    ELSE IF ast.items[1].symbol = "-" /\ Len(ast.items) - 1 = 1
    THEN Res([ctx EXCEPT !.bad = @ \/ first = "i8"], first_type,
             IF type_is_float(k) THEN "double" ELSE "i64")
    ELSE IF ast.items[1].symbol = "/" /\ Len(ast.items) - 1 = 1
    THEN IF type_is_float(k) THEN Res(ctx, first_type, "double")
         ELSE Made(Alloc(ctx, "Float"), "double")
    ELSE ReplLoop(ctx, ast, 3, first_type, first)

ReplArithFirst(first, ast) ==
    IF Failed(first) THEN Null(first.ctx)
    ELSE ReplArithSeed(Touch(first.ctx, {first.type}), ast, first.type, first.value,
                       KindRead(first.ctx, first.type))

ReplArith(ctx, ast) ==
    IF ~check_arity(env_lookup(ctx.env, ast.items[1].symbol), Len(ast.items) - 1)
    THEN Null(ctx)
    ELSE ReplArithFirst(
            repl_codegen_expr(ctx, ast.items[2], OperandStr(ast.items[2])), ast)

ReplCallArg(a, ast, i) ==
    IF Failed(a) THEN Null(a.ctx) ELSE ReplCallArgs(a.ctx, ast, i + 1)

\* The argument loop of a user-function call, from the i-th argument on.
ReplCallArgs(ctx, ast, i) ==
    IF i > Len(ast.items) - 1 THEN Res(ctx, 0, "args")
    ELSE ReplCallArg(repl_codegen_expr(ctx, ast.items[i + 1], NullStr), ast, i)

\* LLVMBuildCall2; ast_typed->type = entry->return_type
ReplCallDone(a, ast) ==
    IF Failed(a) THEN Null(a.ctx)
    ELSE Res(a.ctx, find(a.ctx.env, ast.items[1].symbol).return_type, "call")

ReplCallEntry(ctx, entry, ast) ==
    IF entry.kind # "ENV_FUNC" THEN Null(ctx)
    ELSE IF ~check_arity(entry, Len(ast.items) - 1) THEN Null(ctx)
    ELSE ReplCallDone(ReplCallArgs(ctx, ast, 1), ast)

ReplCall(ctx, ast) ==
    ReplCallEntry(Lookup(ctx, ast.items[1].symbol, "call"),
                  env_lookup(ctx.env, ast.items[1].symbol), ast)

ReplList(ctx, ast) ==
    IF Len(ast.items) = 0 THEN Null(ctx)
    ELSE IF ast.items[1].type # "AST_SYMBOL" THEN Null(ctx)
    ELSE IF ast.items[1].symbol = "quote" THEN ReplQuote(ctx, ast)
    ELSE IF ast.items[1].symbol = "define" THEN ReplDefine(ctx, ast)
    ELSE IF ast.items[1].symbol = "show" THEN ReplShow(ctx, ast)
    ELSE IF ast.items[1].symbol \in {"+", "-", "*", "/"} THEN ReplArith(ctx, ast)
    ELSE ReplCall(ctx, ast)

\* codegen_expr of repl.c; literal_str is ast_typed->literal_str
repl_codegen_expr(ctx, ast, literal_str) ==
    IF ctx.exit # "no" THEN Null(ctx)
    ELSE CASE ast.type = "AST_NUMBER" -> ReplNumber(ctx, ast, literal_str)
           [] ast.type = "AST_CHAR"   -> ReplChar(ctx, ast)
           [] ast.type = "AST_SYMBOL" -> ReplSymbol(ctx, ast)
           [] ast.type = "AST_STRING" -> ReplString(ctx, ast)
           [] ast.type = "AST_LIST"   -> ReplList(ctx, ast)
           [] OTHER                   -> Null(ctx)

\* register_builtins: the entries in the order they are inserted
Builtins ==
    << <<"+", 1, -1>>, <<"-", 1, -1>>, <<"*", 1, -1>>, <<"/", 1, -1>>,
       <<"show", 1, 1>>, <<"quote", 1, 1>>, <<"define", 2, -1>> >>

RECURSIVE register_builtins(_, _)
register_builtins(table, i) ==
    IF i > Len(Builtins) THEN table
    ELSE register_builtins(
            env_insert_builtin(table, Builtins[i][1], Builtins[i][2], Builtins[i][3]),
            i + 1)

\* One instruction of a wrapper run by the line numbered line: a store
\* leaves its value in the global, a load notes for which name it read, the
\* line that stored what it read, and whether it read it whole and in the
\* representation it was stored in.
RunStep(mem, ins, line) ==
    IF ins.op = "store"
    THEN [mem EXCEPT !.globals[ins.g].rep = ins.rep,
                     !.globals[ins.g].line = line]
    ELSE [mem EXCEPT !.reads = Append(@,
            [name  |-> mem.globals[ins.g].name,
             line  |-> mem.globals[ins.g].line,
             exact |-> /\ ins.rep = mem.globals[ins.g].rep
                       /\ Width(ins.rep) <= Width(mem.globals[ins.g].ty)])]

\* func_ptr(): the instructions of the wrapper from the i-th on
RECURSIVE RunCode(_, _, _, _)
RunCode(code, i, mem, line) ==
    IF i > Len(code) THEN mem
    ELSE RunCode(code, i + 1, RunStep(mem, code[i], line), line)

\* No batch compile under way; also the compile before its first form.
NoBatch ==
    [env |-> env_create, nvals |-> 0, pos |-> 0, exit |-> "no",
     last |-> AstNode("NONE"), trace |-> <<>>, oracle |-> DefaultOracle,
     before |-> env_create, beforeHeap |-> EmptyHeap]

\* No arithmetic call under way.
NoArith == [op |-> "+", kinds |-> <<>>, done |-> FALSE,
            res |-> [err |-> "none", type |-> "Unknown", steps |-> 0]]

\* The session as repl_init leaves it; typed tells the LLVM of the build.
\*   expr_count  ctx->expr_count
\*   kept        the wrappers left in the module by lines that failed
\*               verification: the number in their name, their instructions
\*   nlines      the lines read so far
\*   defined     for each name the last line that evaluated a define of it
\*               and returned true, 0 if none
\*   last, ok, outcome, own, trace, reads, definedBefore
\*               the last line: its tree, what repl_eval_line returned, how it
\*               ended, whether the wrapper invoked was its own, its env_lookup
\*               calls, the loads its run made, and defined as it was before
\*   printed, rtype
\*               the last line: the formats of the prints appended after its
\*               expression, and the Type its expression was given
\*   envBefore, heapBefore
\*               the environment and the Type records as the last line
\*               found them
ReplStart(typed) ==
    [env |-> register_builtins(env_create, 1), globals |-> <<>>, expr_count |-> 0,
     kept |-> <<>>, nlines |-> 0, exit |-> "no", typed |-> typed,
     defined |-> [n \in {"x"} |-> 0], last |-> AstNode("NONE"), ok |-> TRUE,
     outcome |-> "none", own |-> TRUE, trace |-> <<>>, reads |-> <<>>,
     definedBefore |-> [n \in {"x"} |-> 0], printed |-> <<>>, rtype |-> 0,
     envBefore |-> register_builtins(env_create, 1), heapBefore |-> EmptyHeap]

\* No session under way.
NoRepl == ReplStart(FALSE)

\* The index of the highest bit of an i64, where __print_binary starts
TopBit == 63

\* The i64 whose set bits are those of S, as its bits 0..TopBit
Word(S) == [i \in 0..TopBit |-> IF i \in S THEN 1 ELSE 0]

\* No back end run.  exit is "running", the exit code "0" or "1", or the
\* signal that ended the process.
NoEmit == [pc |-> "none", flags |-> [emit_ir |-> FALSE, emit_bc |-> FALSE,
                                     emit_asm |-> FALSE, emit_obj |-> FALSE],
           files |-> {}, failed |-> {}, exit |-> "running"]

\* No text produced.
NoPrint == [op |-> "none", ast |-> AstNode("NONE"), n |-> Word({}), text |-> <<>>,
            shown |-> <<>>, pc |-> "none", idx |-> 0, started |-> 0, steps |-> 0,
            src |-> <<>>, exit |-> "no", again |-> AstNode("NONE"), exit2 |-> "no"]

\* No conversion made.
NoConv == [op |-> "none", declared |-> <<>>, actual |-> <<>>, ret |-> "Float",
           ok |-> TRUE, out |-> <<>>, result |-> "Float"]

----
\* The environment driven by arbitrary insert calls

\* Arguments the calls are made with: <<kind of the type, storage handle,
\* docstring>>, <<arity_min, arity_max>>, <<params (name, kind of the type),
\* kind of the return type, function handle, docstring>>.  Every call gets
\* freshly made Type records, as the callers in main.c and repl.c pass them.
VarArgs == {<<"Int", 1, NULL>>, <<"Float", 2, "doc">>, <<"Int", 2, NULL>>}

BuiltinArgs == {<<1, -1>>, <<2, 2>>}

FuncArgs == {<< <<>>, "Int", 3, NULL >>,
             << <<[name |-> "p", type_name |-> "Int"]>>, "Float", 4, "doc" >>}

InitEnv ==
    /\ env = env_create
    /\ envHist = <<>>
    /\ arith = NoArith
    /\ rd = NoRead
    /\ heap = EmptyHeap
    /\ cg = NoBatch
    /\ repl = NoRepl
    /\ conv = NoConv
    /\ pr = NoPrint
    /\ em = NoEmit

EnvInsertWithDoc ==
    \E name \in Names, a \in VarArgs :
        LET h1 == make_type(heap, a[1])
            r  == env_insert_with_doc(h1, env, name, NewestType(h1), a[2], a[3])
        IN  /\ Len(envHist) < MaxEnvOps
            /\ env' = r.env
            /\ heap' = r.heap
            /\ envHist' = Append(envHist,
                  [op |-> "var", name |-> name, type |-> NewestType(h1),
                   kind |-> a[1], value |-> a[2],
                   arity_min |-> 0, arity_max |-> 0, params |-> <<>>,
                   return_type |-> 0, func_ref |-> 0, count |-> env'.count])
            /\ UNCHANGED <<arith, rd, cg, repl, conv, pr, em>>

EnvInsertBuiltin ==
    \E name \in Names, a \in BuiltinArgs :
        /\ Len(envHist) < MaxEnvOps
        /\ env' = env_insert_builtin(env, name, a[1], a[2])
        /\ envHist' = Append(envHist,
              [op |-> "builtin", name |-> name, type |-> 0, kind |-> NULL,
               value |-> 0,
               arity_min |-> a[1], arity_max |-> a[2], params |-> <<>>,
               return_type |-> 0, func_ref |-> 0, count |-> env'.count])
        /\ UNCHANGED <<arith, rd, heap, cg, repl, conv, pr, em>>

EnvInsertFunc ==
    \E name \in Names, a \in FuncArgs :
        LET params == EnvParams(heap, a[1])
            h1     == ParamTypes(heap, a[1], 1)
            h2     == make_type(h1, a[2])
            r      == env_insert_func(h2, env, name, params, NewestType(h2),
                                      a[3], a[4])
        IN  /\ Len(envHist) < MaxEnvOps
            /\ env' = r.env
            /\ heap' = r.heap
            /\ envHist' = Append(envHist,
                  [op |-> "func", name |-> name, type |-> 0, kind |-> a[2],
                   value |-> 0,
                   arity_min |-> 0, arity_max |-> 0, params |-> params,
                   return_type |-> NewestType(h2), func_ref |-> a[3],
                   count |-> env'.count])
            /\ UNCHANGED <<arith, rd, cg, repl, conv, pr, em>>

NextEnv ==
    \/ EnvInsertWithDoc
    \/ EnvInsertBuiltin
    \/ EnvInsertFunc

SpecEnv == InitEnv /\ [][NextEnv]_vars

----
\* Claims about the environment

\* The entry that env_lookup returns carries the kind and payload of call o.
EntryIsOf(e, o) ==
    CASE o.op = "var" ->
            /\ e.kind = "ENV_VAR" /\ e.type = o.type /\ e.value = o.value
            /\ IsLive(heap, e.type) /\ heap.cells[e.type].kind = o.kind
      [] o.op = "builtin" ->
            e.kind = "ENV_BUILTIN" /\ e.arity_min = o.arity_min
                                   /\ e.arity_max = o.arity_max
      [] OTHER ->
            e.kind = "ENV_FUNC" /\ e.params = o.params
                                /\ e.param_count = Len(o.params)
                                /\ e.return_type = o.return_type
                                /\ e.func_ref = o.func_ref
                                /\ IsLive(heap, e.return_type)
                                /\ heap.cells[e.return_type].kind = o.kind
                                /\ \A k \in 1..Len(e.params) :
                                       IsLive(heap, e.params[k].type)

LastTwoSameName ==
    /\ Len(envHist) >= 2
    /\ envHist[Len(envHist)].name = envHist[Len(envHist) - 1].name

InsertedNames == {envHist[i].name : i \in 1..Len(envHist)}

\* C4: after any sequence of inserts (names colliding in one bucket included)
\* no two entries carry the same name, count is the number of distinct names
\* inserted, every inserted name is found and a never-inserted one yields NULL.
C4_UniqueNames ==
    LET es == EnvEntries(env)
    IN  /\ \A i, j \in 1..Len(es) : es[i].name = es[j].name => i = j
        /\ env.count = Cardinality(InsertedNames)
        /\ Len(es) = env.count
        /\ \A n \in InsertedNames : env_lookup(env, n).name = n
        /\ \A n \in Names \ InsertedNames : env_lookup(env, n) = NullEntry

\* Two colliding names are both present and one of them was inserted twice.
C4_Witness ==
    /\ Len(envHist) = 3
    /\ InsertedNames = {"a", "q"}
    /\ BucketOf(env, "a") = BucketOf(env, "q")
    /\ Len(env.buckets[BucketOf(env, "a")]) = 2

----
\* One arithmetic call lowered on operands of arbitrary kinds

ArithOps == {"+", "-", "*", "/"}

InitArith ==
    /\ env = env_create
    /\ envHist = <<>>
    /\ rd = NoRead
    /\ heap = EmptyHeap
    /\ cg = NoBatch
    /\ repl = NoRepl
    /\ conv = NoConv
    /\ pr = NoPrint
    /\ em = NoEmit
    /\ \E op \in ArithOps, kinds \in (SeqsUpTo(Kinds, MaxArgs) \ {<<>>}) :
          arith = [NoArith EXCEPT !.op = op, !.kinds = kinds]

LowerArith ==
    /\ ~arith.done
    /\ arith' = [arith EXCEPT !.done = TRUE, !.res = ArithCall(arith.op, arith.kinds)]
    /\ UNCHANGED <<env, envHist, rd, heap, cg, repl, conv, pr, em>>

NextArith == LowerArith

SpecArith == InitArith /\ [][NextArith]_vars

----
\* Claims about arithmetic

\* Two operands of the call have different kinds among Hex, Bin, Oct.
HasMixedBases(kinds) ==
    \E i, j \in 1..Len(kinds) :
        IsBase(kinds[i]) /\ IsBase(kinds[j]) /\ kinds[i] # kinds[j]

AllNumeric(kinds) ==
    \A i \in 1..Len(kinds) :
        kinds[i] \in {"Int", "Float", "Char", "Hex", "Bin", "Oct"}

\* C7: a call of + - * / with two operands of different kinds among Hex, Bin,
\* Oct fails with the 'cannot mix' error, wherever the two operands stand and
\* whatever the other operands are (stated here for the calls whose operands
\* are all numeric, where 'cannot mix' is the only error that can arise).
C7_MixAlwaysRejected ==
    (arith.done /\ AllNumeric(arith.kinds) /\ HasMixedBases(arith.kinds))
        => arith.res.err = "mix"

\* C8: one promotion step is commutative: for numeric kinds a, b that are not
\* two different members of Hex, Bin, Oct the step on (a, b) and the step on
\* (b, a) choose the same kind, and for the excluded pairs both orders are
\* rejected.
C8_PromoteCommutative ==
    (arith.done /\ Len(arith.kinds) = 2 /\ AllNumeric(arith.kinds)) =>
        LET a == arith.kinds[1]
            b == arith.kinds[2]
            swapped == ArithCall(arith.op, <<b, a>>)
        IN  IF IsBase(a) /\ IsBase(b) /\ a # b
            THEN arith.res.err = "mix" /\ swapped.err = "mix"
            ELSE /\ arith.res.err = "none"
                 /\ swapped.err = "none"
                 /\ arith.res.type = swapped.type

\* A lowered step on an asymmetric pair (Char with Hex promotes to Int).
C8_Witness ==
    /\ arith.done
    /\ arith.kinds = <<"Char", "Hex">>
    /\ arith.res.type = "Int"

NonNumericKinds == {"String", "Bool", "Fn", "Unknown"}

\* C9: one binary reduction step on (lhs, rhs) is an error if either kind is
\* non-numeric, an error if both are different members of Hex, Bin, Oct, Float
\* if either is Float, else Int if either is Char, else the common kind if
\* both are equal, else Int.
C9_PromotionTable ==
    (arith.done /\ Len(arith.kinds) = 2) =>
        LET l == arith.kinds[1]
            r == arith.kinds[2]
        IN  IF l \in NonNumericKinds \/ r \in NonNumericKinds
            THEN arith.res.err = "nonnumeric"
            ELSE IF IsBase(l) /\ IsBase(r) /\ l # r
            THEN arith.res.err = "mix"
            ELSE /\ arith.res.err = "none"
                 /\ arith.res.steps = 1
                 /\ arith.res.type =
                        IF l = "Float" \/ r = "Float" THEN "Float"
                        ELSE IF l = "Char" \/ r = "Char" THEN "Int"
                        ELSE IF l = r THEN l
                        ELSE "Int"

\* A lowered step on two equal base kinds, which keeps the base.
C9_Witness ==
    /\ arith.done
    /\ arith.kinds = <<"Oct", "Oct">>
    /\ arith.res = [err |-> "none", type |-> "Oct", steps |-> 1]

----
\* The reader run over arbitrary sources

LexAlphabet == {"0", "1", "8", "x", "B", "o", ".", "-", "e", " "}

InitLex ==
    /\ env = env_create
    /\ envHist = <<>>
    /\ arith = NoArith
    /\ heap = EmptyHeap
    /\ cg = NoBatch
    /\ repl = NoRepl
    /\ conv = NoConv
    /\ pr = NoPrint
    /\ em = NoEmit
    /\ \E source \in SeqsUpTo(LexAlphabet, MaxSrcLen) :
          rd = [NoRead EXCEPT !.lex = lexer_init(source)]

\* One lexer_next_token call; a number token becomes a number node
\* (parse_expr) whose type lowering infers from its lexeme (codegen_expr).
ReadToken ==
    /\ rd.exit = "no"
    /\ rd.tok.type # "TOK_EOF"
    /\ LET out == lexer_next_token(rd.lex)
       IN  rd' = [lex |-> out.lex, tok |-> out.tok, exit |-> out.exit,
                  number |-> IF out.exit = "no" /\ out.tok.type = "TOK_NUMBER"
                             THEN NumberNode(out.tok.value)
                             ELSE NoNumber]
    /\ UNCHANGED <<env, envHist, arith, heap, cg, repl, conv, pr, em>>

NextLex == ReadToken

SpecLex == InitLex /\ [][NextLex]_vars

----
\* Claims about literals

StartsWith(s, c0, cs) == Len(s) >= 2 /\ s[1] = c0 /\ s[2] \in cs

\* C10: for every lexeme the lexer emits as a number token, the inferred kind
\* is Hex for a 0x/0X prefix, Bin for 0b/0B, Oct for 0o/0O, otherwise Float
\* if the lexeme contains '.', 'e' or 'E', otherwise Int.
C10_LiteralKind ==
    (rd.exit = "no" /\ rd.tok.type = "TOK_NUMBER") =>
        LET s == rd.tok.value
        IN  /\ rd.number.literal_str = s
            /\ rd.number.type =
                 IF StartsWith(s, "0", {"x", "X"}) THEN "Hex"
                 ELSE IF StartsWith(s, "0", {"b", "B"}) THEN "Bin"
                 ELSE IF StartsWith(s, "0", {"o", "O"}) THEN "Oct"
                 ELSE IF \E i \in 1..Len(s) : s[i] \in {".", "e", "E"} THEN "Float"
                 ELSE "Int"

\* The lexer has emitted the prefix-only lexeme 0x, inferred as Hex.
C10_Witness ==
    /\ rd.tok.type = "TOK_NUMBER"
    /\ rd.tok.value = <<"0", "x">>
    /\ rd.number.type = "Hex"

----
\* Batch compile of arbitrary programs (main.c, compile)

BNames == {"a", "b"}

FnNames == {"a", "f"}

Sym(name) == ast_new_symbol(name)

Num1 == NumberOf(<<"1">>)

Num25 == NumberOf(<<"2", ".", "5">>)

\* (define name value), [name :: Type], (show x), (f args...), (+ x y)
Define(name_expr, value_expr) == ListOf(<<Sym("define"), name_expr, value_expr>>)

Annot(name, type_name) == ListOf(<<Sym(name), Sym("::"), Sym(type_name)>>)

\* (define (name params...) body), as parse_list builds it
DefineFn(name, params, body) ==
    Define(Sym(name), ast_new_lambda(params, NULL, NULL, body))

Param(name, type_name) == [name |-> name, type_name |-> type_name]

VarDefines ==
    {Define(Sym(n), v) : n \in BNames, v \in {Num1, Num25, Sym("a")}}
        \cup {Define(Annot("a", "Float"), Num1)}

Bodies == {Sym("a"), Sym("b"), Define(Sym("a"), Sym("b")), ListOf(<<Sym("f"), Sym("b")>>)}

FnDefines ==
    {DefineFn(n, ps, body) :
        n \in FnNames, ps \in {<<>>, <<Param("b", "Int")>>}, body \in Bodies}

Loads == {Sym("a"), Sym("b"), ListOf(<<Sym("show"), Sym("a")>>)}

\* (f (define (f [b :: Int] [c :: Int]) b)): the argument defines f anew
CallRedefining ==
    ListOf(<<Sym("f"),
             DefineFn("f", <<Param("b", "Int"), Param("c", "Int")>>, Sym("b"))>>)

Calls == {ListOf(<<Sym("f"), Num1>>), ListOf(<<Sym("+"), Sym("a"), Num25>>),
          CallRedefining}

TopForms == VarDefines \cup FnDefines \cup Loads \cup Calls

InitBatch ==
    /\ env = env_create
    /\ envHist = <<>>
    /\ arith = NoArith
    /\ rd = NoRead
    /\ heap = EmptyHeap
    /\ cg = NoBatch
    /\ repl = NoRepl
    /\ conv = NoConv
    /\ pr = NoPrint
    /\ em = NoEmit

\* The context a top-level form is lowered in.
TopCtx(oracle) ==
    [env |-> cg.env, frames |-> <<>>, heap |-> heap, nvals |-> cg.nvals,
     exit |-> "no", trace |-> <<>>, oracle |-> oracle]

\* The lowering made an undefined use.
UBHit(r) == Len(r.ctx.heap.ub) > Len(heap.ub)

\* What an undefined use may do while form is lowered; the oracle is free
\* only when there is one.
OraclesFor(form) ==
    IF UBHit(codegen_expr(TopCtx(DefaultOracle), form)) THEN Oracles
    ELSE {DefaultOracle}

\* The compile after form has been lowered with result r.
Lowered(form, oracle, r) ==
    /\ cg' = [env |-> r.ctx.env, nvals |-> r.ctx.nvals, pos |-> cg.pos + 1,
              exit |-> r.ctx.exit, last |-> form, trace |-> r.ctx.trace,
              oracle |-> oracle, before |-> cg.env, beforeHeap |-> heap]
    /\ heap' = r.ctx.heap

\* One turn of the loop over exprs: result = codegen_expr(&ctx, exprs.exprs[i]).
LowerForm ==
    /\ cg.exit = "no"
    /\ cg.pos < MaxForms
    /\ \E form \in TopForms :
          \E oracle \in OraclesFor(form) :
             Lowered(form, oracle, codegen_expr(TopCtx(oracle), form))
    /\ UNCHANGED <<env, envHist, arith, rd, repl, conv, pr, em>>

\* The end of compile: codegen_dispose(&ctx) frees the environment.
Dispose ==
    /\ cg.exit = "no"
    /\ cg.pos > 0
    /\ cg' = [cg EXCEPT !.exit = "disposed"]
    /\ heap' = env_free(heap, cg.env)
    /\ UNCHANGED <<env, envHist, arith, rd, repl, conv, pr, em>>

NextBatch == LowerForm \/ Dispose

SpecBatch == InitBatch /\ [][NextBatch]_vars

----
\* Claims about scoping in batch compilation

\* C2: forms are lowered in source order; a name bound by an earlier
\* top-level define resolves in every later top-level form, and a reference to
\* a name that no earlier form has bound is a fatal unbound-variable error.
C2_DefineVisibleAfter ==
    \A i \in 1..Len(cg.trace) :
        LET ev == cg.trace[i]
        IN  ev.use \in {"load", "show"} =>
              /\ find(cg.before, ev.name).kind = "ENV_VAR" => ev.got.kind # "NONE"
              /\ (ev.depth = 0 /\ find(cg.before, ev.name).kind = "NONE")
                    => cg.exit = "unbound variable"

\* C5: while a function body is lowered, a lookup yields the binding of the
\* function's own frame if there is one (a parameter shadows), and otherwise
\* the binding of the enclosing frame.
C5_InnermostFirst ==
    \A i \in 1..Len(cg.trace) :
        LET ev  == cg.trace[i]
            own == IF ev.got.kind # "NONE" THEN ev.got ELSE NullEntry
        IN  ev.depth >= 1 =>
              ev.got = IF own.kind # "NONE" THEN own ELSE ev.outer

IsFnDefine(form) ==
    /\ form.type = "AST_LIST" /\ Len(form.items) = 3
    /\ form.items[1].symbol = "define"
    /\ form.items[2].type = "AST_SYMBOL"
    /\ form.items[3].type = "AST_LAMBDA"

\* C6: lowering a function definition changes the enclosing table only by the
\* user-function entry of the defined name: every other name is bound or
\* absent as before, with the same kind, type and storage (stated for the
\* names other than the defined one).
C6_FrameEffect ==
    (cg.pos > 0 /\ cg.exit = "no" /\ IsFnDefine(cg.last)) =>
        LET fname == cg.last.items[2].symbol
        IN  /\ find(cg.env, fname).kind = "ENV_FUNC"
            /\ \A n \in (BNames \cup FnNames) \ {fname} :
                  LET e0 == find(cg.before, n)
                      e1 == find(cg.env, n)
                  IN  /\ e1 = e0
                      /\ (e0.kind = "ENV_VAR" /\ IsLive(cg.beforeHeap, e0.type))
                            => /\ IsLive(heap, e1.type)
                               /\ heap.cells[e1.type].kind
                                     = cg.beforeHeap.cells[e0.type].kind

----
\* A session of arbitrary lines (repl.c, repl_run)

Num5 == NumberOf(<<"5">>)

DefineX(value_expr) == Define(Sym("x"), value_expr)

\* x, (show x), (+ x 1), (- x), defines of x from literals of three
\* representations, from x itself and with a declared type, a line that
\* fails after a nested define, and the empty line.
ReplLines ==
    {DefineX(Num5), DefineX(Num25), DefineX(ast_new_char("a")), DefineX(Sym("x")),
     Define(Annot("x", "Int"), Num25),
     Sym("x"), ListOf(<<Sym("show"), Sym("x")>>),
     ListOf(<<Sym("+"), Sym("x"), Num1>>), ListOf(<<Sym("-"), Sym("x")>>),
     ListOf(<<Sym("+"), DefineX(Num25), ast_new_string("s")>>),
     AstNode("NONE")}

InitRepl ==
    /\ env = env_create
    /\ envHist = <<>>
    /\ arith = NoArith
    /\ rd = NoRead
    /\ heap = EmptyHeap
    /\ cg = NoBatch
    /\ \E typed \in BOOLEAN : repl = ReplStart(typed)
    /\ conv = NoConv
    /\ pr = NoPrint
    /\ em = NoEmit

\* The context a line is lowered in.
ReplCtx(oracle) ==
    [env |-> repl.env, frames |-> <<>>, heap |-> heap, nvals |-> 0, exit |-> "no",
     trace |-> <<>>, oracle |-> oracle, globals |-> repl.globals, code |-> <<>>,
     bad |-> FALSE, typed |-> repl.typed]

should_print(ast) ==
    ~(/\ ast.type = "AST_LIST" /\ Len(ast.items) > 0
      /\ ast.items[1].type = "AST_SYMBOL"
      /\ ast.items[1].symbol \in {"define", "show"})

\* The print of the result: rt = ast_typed.type ? ast_typed.type : type_float()
PrintResult(r, ast) ==
    IF Failed(r) \/ ~should_print(ast) THEN r
    ELSE IF r.type = 0 THEN Res(Alloc(r.ctx, "Float"), 0, r.value)
    ELSE Res(Touch(r.ctx, {r.type}), r.type, r.value)

\* get_fmt_char, get_fmt_str, get_fmt_int, get_fmt_float as chosen for rt->kind
get_fmt(kind) ==
    IF kind = "Char" THEN "%c"
    ELSE IF kind = "String" THEN "%s"
    ELSE IF type_is_integer(kind) THEN "%ld"
    ELSE "%g"

\* The printf calls appended after the expression that gave r.
PrintFormat(r, ast) ==
    IF Failed(r) \/ ~should_print(ast) THEN <<>>
    ELSE IF r.type = 0 THEN <<get_fmt("Float")>>
    ELSE <<get_fmt(KindRead(r.ctx, r.type))>>

\* codegen_expr(ctx, &ast_typed) for the line and the print of its result
LowerLine(oracle, ast) ==
    PrintResult(
        repl_codegen_expr(ReplCtx(oracle), ast,
                          IF ast.type = "AST_NUMBER" THEN ast.literal_str
                          ELSE NullStr),
        ast)

\* How repl_eval_line ends after the lowering gave r.
LineOutcome(r) ==
    IF r.ctx.exit # "no" THEN "abort"
    ELSE IF r.value = "NULL" THEN "lowering failed"
    ELSE IF r.ctx.bad THEN "verification failed"
    ELSE "run"

\* The wrapper that LLVMGetFunctionAddress(engine, func_name) finds when an
\* earlier wrapper of that name is still in the module: its index in kept, 0
\* if the name is the new wrapper's alone.
StaleWrapper ==
    IF \E k \in 1..Len(repl.kept) : repl.kept[k].name = repl.expr_count
    THEN CHOOSE k \in 1..Len(repl.kept) :
            /\ repl.kept[k].name = repl.expr_count
            /\ \A j \in 1..(k - 1) : repl.kept[j].name # repl.expr_count
    ELSE 0

\* The run of a wrapper that failed verification may end the process.
CrashChoices(r) ==
    IF LineOutcome(r) = "run" /\ StaleWrapper # 0 THEN BOOLEAN ELSE {FALSE}

\* The oracle is free only when the lowering makes an undefined use.
ReplOraclesFor(ast) ==
    IF UBHit(LowerLine(DefaultOracle, ast)) THEN Oracles ELSE {DefaultOracle}

\* The names the instructions of code store to.
StoredNames(code, globals) ==
    {globals[code[i].g].name : i \in {j \in 1..Len(code) : code[j].op = "store"}}

\* The session after the line was lowered with result r, and run, giving mem,
\* if it got that far.
Evaluated(ast, r, ran, mem) ==
    /\ repl' = [repl EXCEPT
          !.env = r.ctx.env,
          !.globals = mem.globals,
          !.expr_count = IF ran THEN @ + 1 ELSE @,
          !.kept = IF LineOutcome(r) = "verification failed"
                   THEN Append(@, [name |-> repl.expr_count, code |-> r.ctx.code])
                   ELSE @,
          !.nlines = @ + 1,
          !.exit = IF LineOutcome(r) = "abort" THEN "abort"
                   ELSE IF LineOutcome(r) = "run" /\ ~ran THEN "crash"
                   ELSE "no",
          !.defined = IF ran /\ StaleWrapper = 0
                      THEN [n \in DOMAIN @ |->
                              IF n \in StoredNames(r.ctx.code, r.ctx.globals)
                              THEN repl.nlines + 1 ELSE @[n]]
                      ELSE @,
          !.last = ast, !.ok = ran, !.outcome = LineOutcome(r),
          !.own = StaleWrapper = 0,
          !.trace = r.ctx.trace, !.reads = mem.reads,
          !.definedBefore = repl.defined,
          !.printed = PrintFormat(r, ast), !.rtype = r.type,
          !.envBefore = repl.env, !.heapBefore = heap]
    /\ heap' = r.ctx.heap

\* The memory after func_ptr(), if the line gets that far.
Invoked(r, ran) ==
    IF ~ran THEN [globals |-> r.ctx.globals, reads |-> <<>>]
    ELSE RunCode(IF StaleWrapper = 0 THEN r.ctx.code ELSE repl.kept[StaleWrapper].code,
                 1, [globals |-> r.ctx.globals, reads |-> <<>>], repl.nlines + 1)

\* repl_eval_line(ctx, line) on an empty line: return true
BlankLine ==
    repl' = [repl EXCEPT !.nlines = @ + 1, !.last = AstNode("NONE"), !.ok = TRUE,
                         !.outcome = "blank", !.own = TRUE, !.trace = <<>>,
                         !.reads = <<>>, !.definedBefore = repl.defined,
                         !.printed = <<>>, !.rtype = 0,
                         !.envBefore = repl.env, !.heapBefore = heap]
    /\ heap' = heap

EvalWith(ast, r) ==
    \E crash \in CrashChoices(r) :
        Evaluated(ast, r, LineOutcome(r) = "run" /\ ~crash,
                  Invoked(r, LineOutcome(r) = "run" /\ ~crash))

\* repl_eval_line(ctx, line)
ReplEvalLine ==
    /\ repl.exit = "no"
    /\ repl.nlines < MaxLines
    /\ \E ast \in ReplLines :
          IF ast.type = "NONE" THEN BlankLine
          ELSE \E oracle \in ReplOraclesFor(ast) : EvalWith(ast, LowerLine(oracle, ast))
    /\ UNCHANGED <<env, envHist, arith, rd, cg, conv, pr, em>>

NextRepl == ReplEvalLine

SpecRepl == InitRepl /\ [][NextRepl]_vars

----
\* Claims about the interactive session

\* The line is a load of a name: name or (show name).
IsLoadLine(ast) ==
    \/ ast.type = "AST_SYMBOL"
    \/ /\ ast.type = "AST_LIST" /\ Len(ast.items) = 2
       /\ ast.items[1].type = "AST_SYMBOL" /\ ast.items[1].symbol = "show"
       /\ ast.items[2].type = "AST_SYMBOL"

LoadedName(ast) == IF ast.type = "AST_SYMBOL" THEN ast.symbol ELSE ast.items[2].symbol

\* C1: after a line that evaluated a define of a name successfully, a later
\* line that loads the name resolves it to a variable entry, a line that is
\* just the load (name or show name) is evaluated successfully, and every
\* load run reads, whole and in the representation it was stored in, the value
\* stored by the most recent successful define of the name (or by a define
\* earlier on the line itself).
C1_DefineObservable ==
    /\ \A i \in 1..Len(repl.trace) :
          (/\ repl.trace[i].use \in {"load", "show"}
           /\ repl.trace[i].name \in DOMAIN repl.definedBefore
           /\ repl.definedBefore[repl.trace[i].name] > 0)
             => repl.trace[i].got.kind = "ENV_VAR"
    /\ \A i \in 1..Len(repl.reads) :
          (/\ repl.reads[i].name \in DOMAIN repl.definedBefore
           /\ repl.definedBefore[repl.reads[i].name] > 0)
             => /\ repl.reads[i].exact
                /\ repl.reads[i].line \in
                      {repl.definedBefore[repl.reads[i].name], repl.nlines}
    /\ (/\ IsLoadLine(repl.last)
        /\ LoadedName(repl.last) \in DOMAIN repl.definedBefore
        /\ repl.definedBefore[LoadedName(repl.last)] > 0)
          => repl.ok

\* C11: at the start of every line the module holds no wrapper that failed
\* verification: a wrapper whose verification fails is deleted before the next
\* line is read.
C11_FailedWrapperDeleted == Len(repl.kept) = 0

\* C12: the name a line gives its wrapper (__repl_expr_ and expr_count) is the
\* name of no function already in the module, and the function found under
\* that name and invoked is the wrapper emitted for the line itself.
C12_OwnWrapper ==
    /\ \A k \in 1..Len(repl.kept) :
          repl.exit = "no" => repl.kept[k].name # repl.expr_count
    /\ repl.own

\* The line was lowered to a value: its wrapper was completed.
WrapperCompleted == repl.outcome \in {"run", "verification failed"}

\* C13: the wrapper of a line that is not a define or a show holds, after the
\* expression, exactly one print, with the formatter of the kind the
\* expression was inferred to have (%c Char, %s String, %ld Int/Hex/Bin/Oct,
\* %g otherwise); the wrapper of a define or show line holds no such print.
C13_ResultPrint ==
    WrapperCompleted =>
        IF should_print(repl.last)
        THEN repl.printed =
                <<IF repl.rtype = 0 THEN "%g"
                  ELSE CASE heap.cells[repl.rtype].kind = "Char" -> "%c"
                         [] heap.cells[repl.rtype].kind = "String" -> "%s"
                         [] heap.cells[repl.rtype].kind \in {"Int", "Hex", "Bin", "Oct"}
                              -> "%ld"
                         [] OTHER -> "%g">>
        ELSE repl.printed = <<>>

----
\* Value conversions of batch lowering (main.c): the store of a define, the
\* arguments of a call of a user function, the return of a function.  A
\* converted value is [instr, rep]: the instructions emitted for it, in order,
\* and the LLVM type of the value that results.  type_to_llvm of main.c is the
\* switch of repl.c.

\* stored_value of (define [name :: T] value): fk, ik are the kinds of
\* final_type and inferred_type, rep the LLVM type of value_result.value.
DefineConv(fk, ik, rep) ==
    IF type_is_integer(fk) /\ type_is_float(ik)
    THEN [instr |-> <<"fptosi">>, rep |-> "i64"]
    ELSE IF type_is_float(fk) /\ type_is_integer(ik)
    THEN [instr |-> <<"sitofp">>, rep |-> "double"]
    ELSE IF fk = "Char" /\ ik # "Char"
    THEN IF type_is_float(ik) THEN [instr |-> <<"fptosi">>, rep |-> "i8"]
         ELSE IF type_is_integer(ik) THEN [instr |-> <<"trunc">>, rep |-> "i8"]
         ELSE [instr |-> <<>>, rep |-> rep]
    ELSE [instr |-> <<>>, rep |-> rep]

\* ret_value of a function: rk, bk are the kinds of ret_type and
\* body_result.type, rep the LLVM type of body_result.value.
ReturnConv(rk, bk, rep) ==
    IF type_is_integer(rk) /\ type_is_float(bk)
    THEN [instr |-> <<"fptosi">>, rep |-> type_to_llvm(rk)]
    ELSE IF type_is_float(rk) /\ type_is_integer(bk)
    THEN [instr |-> <<"sitofp">>, rep |-> type_to_llvm(rk)]
    ELSE [instr |-> <<>>, rep |-> rep]

\* converted_arg of one argument: ek, ak are the kinds of expected_type and
\* actual_type, rep the LLVM type of arg_result.value.
ArgConvert(ek, ak, rep) ==
    IF ek = ak THEN [instr |-> <<>>, rep |-> rep]
    ELSE IF type_is_integer(ek) /\ type_is_float(ak)
    THEN [instr |-> <<"fptosi">>, rep |-> type_to_llvm(ek)]
    ELSE IF type_is_float(ek) /\ type_is_integer(ak)
    THEN IF ak = "Char" THEN [instr |-> <<"sext", "sitofp">>, rep |-> type_to_llvm(ek)]
         ELSE [instr |-> <<"sitofp">>, rep |-> type_to_llvm(ek)]
    ELSE IF ek = "Char" /\ type_is_integer(ak)
    THEN [instr |-> <<"trunc">>, rep |-> type_to_llvm(ek)]
    ELSE IF type_is_integer(ek) /\ ak = "Char"
    THEN [instr |-> <<"sext">>, rep |-> type_to_llvm(ek)]
    ELSE [instr |-> <<>>, rep |-> rep]

\* The call of a user function whose parameters have the kinds params and
\* whose return type has the kind ret, on arguments of the kinds args: the
\* count test, the conversions, result.type = entry->return_type.
CallConv(params, ret, args) ==
    [op |-> "call", declared |-> params, actual |-> args, ret |-> ret,
     ok |-> Len(args) = Len(params),
     out |-> IF Len(args) # Len(params) THEN <<>>
             ELSE [i \in 1..Len(args) |->
                     ArgConvert(params[i], args[i], type_to_llvm(args[i]))],
     result |-> ret]

\* The kinds whose values the conversions are made for.
ConvKinds == {"Int", "Hex", "Bin", "Oct", "Float", "Char"}

InitConv ==
    /\ env = env_create
    /\ envHist = <<>>
    /\ arith = NoArith
    /\ rd = NoRead
    /\ heap = EmptyHeap
    /\ cg = NoBatch
    /\ repl = NoRepl
    /\ conv = NoConv
    /\ pr = NoPrint
    /\ em = NoEmit

\* (define [name :: T] value) with a value of kind S
ConvDefine ==
    /\ conv.op = "none"
    /\ \E T \in ConvKinds, S \in ConvKinds :
          conv' = [op |-> "define", declared |-> <<T>>, actual |-> <<S>>,
                   ret |-> T, ok |-> TRUE,
                   out |-> <<DefineConv(T, S, type_to_llvm(S))>>, result |-> T]
    /\ UNCHANGED <<env, envHist, arith, rd, heap, cg, repl, pr, em>>

\* (define (f ... -> R) body) with a body of kind B
ConvReturn ==
    /\ conv.op = "none"
    /\ \E R \in ConvKinds, B \in ConvKinds :
          conv' = [op |-> "return", declared |-> <<R>>, actual |-> <<B>>,
                   ret |-> R, ok |-> TRUE,
                   out |-> <<ReturnConv(R, B, type_to_llvm(B))>>, result |-> R]
    /\ UNCHANGED <<env, envHist, arith, rd, heap, cg, repl, pr, em>>

\* (f args...) where f is an entry of kind ENV_FUNC
ConvCall ==
    /\ conv.op = "none"
    /\ \E params \in SeqsUpTo(ConvKinds, MaxParams),
          args \in SeqsUpTo(ConvKinds, MaxParams), ret \in ConvKinds :
          conv' = CallConv(params, ret, args)
    /\ UNCHANGED <<env, envHist, arith, rd, heap, cg, repl, pr, em>>

NextConv == ConvDefine \/ ConvReturn \/ ConvCall

SpecConv == InitConv /\ [][NextConv]_vars

----
\* Claims about the conversions

\* C14: the value that (define [name :: T] value) stores has the
\* representation of T for every declared kind T and every value kind S among
\* Int, Hex, Bin, Oct, Float and Char: a Float is converted to an integer kind
\* by fptosi, an integer to Float by sitofp, a wider integer to Char by trunc,
\* a Char to a wider integer by sext.
C14_DefineStoresDeclared ==
    conv.op = "define" =>
        /\ conv.out[1].rep = type_to_llvm(conv.declared[1])
        /\ (conv.declared[1] # "Char" /\ conv.declared[1] # "Float"
            /\ conv.actual[1] = "Char") => conv.out[1].instr = <<"sext">>
        /\ (conv.declared[1] = "Char" /\ conv.actual[1] \notin {"Char", "Float"})
              => conv.out[1].instr = <<"trunc">>
        /\ (conv.declared[1] # "Float" /\ conv.actual[1] = "Float")
              => conv.out[1].instr = <<"fptosi">>
        /\ (conv.declared[1] = "Float" /\ conv.actual[1] # "Float")
              => conv.out[1].instr = <<"sitofp">>

\* C16: when a function is defined with a declared return kind R and a body
\* of another kind B, both among Int, Hex, Bin, Oct, Float and Char, the value
\* returned has the representation of R.
C16_ReturnDeclared ==
    (conv.op = "return" /\ conv.declared[1] # conv.actual[1])
        => conv.out[1].rep = type_to_llvm(conv.declared[1])

----
\* Claims about calls in batch lowering

\* The form is a call of a user function: a list headed by a symbol that is
\* no special form and no arithmetic operator.
IsUserCall(form) ==
    /\ form.type = "AST_LIST" /\ Len(form.items) > 0
    /\ form.items[1].type = "AST_SYMBOL"
    /\ form.items[1].symbol \notin {"define", "show", "+", "-", "*", "/"}

\* C15: a call whose head resolves to a user-function entry is accepted only
\* when it has as many arguments as the function called has parameters (and
\* then each argument is passed in the representation of its parameter, the
\* result kind being the declared return kind): after a call was lowered
\* without error, the entry of its head is a function entry whose parameter
\* count is the number of arguments of the call.
C15_CallArity ==
    (cg.pos > 0 /\ cg.exit = "no" /\ IsUserCall(cg.last))
        => /\ find(cg.env, cg.last.items[1].symbol).kind = "ENV_FUNC"
           /\ find(cg.env, cg.last.items[1].symbol).param_count
                 = Len(cg.last.items) - 1

----
\* Claims about unary arithmetic

----
\* Printing of trees: ast_print (reader.c) at compile time and, for a quoted
\* argument of show, the printf calls codegen_print_ast (main.c) emits.  A
\* text is a sequence of characters; the symbol and string of a node printed
\* are sequences of characters too.

\* printf("%s", s): the characters of s, nothing for the text <<"NULL">>.
RECURSIVE ast_print(_)
RECURSIVE PrintItems(_, _)
RECURSIVE PrintParams(_, _)

\* [name] or [name :: type], separated by spaces, from the i-th parameter on
PrintParams(params, i) ==
    IF i > Len(params) THEN <<>>
    ELSE (IF i > 1 THEN <<" ">> ELSE <<>>)
         \o <<"[">> \o params[i].name
         \o (IF params[i].type_name # NullStr
             THEN <<" ", ":", ":", " ">> \o params[i].type_name ELSE <<>>)
         \o <<"]">> \o PrintParams(params, i + 1)

\* The items of a list from the i-th on, separated by spaces
PrintItems(items, i) ==
    IF i > Len(items) THEN <<>>
    ELSE (IF i > 1 THEN <<" ">> ELSE <<>>)
         \o ast_print(items[i]) \o PrintItems(items, i + 1)

ast_print(ast) ==
    CASE ast.type = "AST_NUMBER" -> snprintf_g(ast.number)
      [] ast.type = "AST_SYMBOL" -> ast.symbol
      [] ast.type = "AST_STRING" -> <<"\"">> \o ast.string \o <<"\"">>
      [] ast.type = "AST_CHAR"   -> <<"'", ast.character, "'">>
      [] ast.type = "AST_LIST"   -> <<"(">> \o PrintItems(ast.items, 1) \o <<")">>
      [] ast.type = "AST_LAMBDA" ->
            <<"(", "l", "a", "m", "b", "d", "a", " ", "(">>
            \o PrintParams(ast.params, 1)
            \o (IF ast.return_type # NullStr
                THEN <<" ", "-", ">", " ">> \o ast.return_type ELSE <<>>)
            \o <<")">>
            \o (IF ast.docstring # NullStr
                THEN <<" ", "\"">> \o ast.docstring \o <<"\"">> ELSE <<>>)
            \o <<" ">> \o ast_print(ast.body[1]) \o <<")">>
      [] OTHER -> <<>>

\* What the printf calls emitted by codegen_print_ast write when run:
\* get_fmt_float is "%g\n", get_fmt_str is "%s\n".
RECURSIVE codegen_print_ast(_)
RECURSIVE CodegenPrintItems(_, _)

CodegenPrintItems(items, i) ==
    IF i > Len(items) THEN <<>>
    ELSE (IF i > 1 THEN <<" ">> ELSE <<>>)
         \o codegen_print_ast(items[i]) \o CodegenPrintItems(items, i + 1)

codegen_print_ast(ast) ==
    CASE ast.type = "AST_NUMBER" -> snprintf_g(ast.number) \o <<"\n">>
      [] ast.type = "AST_SYMBOL" -> ast.symbol \o <<"\n">>
      [] ast.type = "AST_STRING" -> <<"\"">> \o ast.string \o <<"\"", "\n">>
      [] ast.type = "AST_CHAR"   -> <<"'", ast.character, "'", "\n">>
      [] ast.type = "AST_LIST"   ->
            <<"(">> \o CodegenPrintItems(ast.items, 1) \o <<")", "\n">>
      [] OTHER -> <<>>

\* (show arg) with a quoted arg: what the program prints for it
ShowQuoted(arg) ==
    IF Len(arg.items) = 2 THEN codegen_print_ast(arg.items[2]) ELSE <<>>

\* 'q as the reader builds it
Quote(q) == ListOf(<<Sym("quote"), q>>)

\* foo, 1, 2.5, "x", 'c', the empty list and (foo)
QuotedItems ==
    {ast_new_symbol(<<"f", "o", "o">>), NumberOf(<<"1">>), NumberOf(<<"2", ".", "5">>),
     ast_new_string(<<"x">>), ast_new_char("c"), ListOf(<<>>),
     ListOf(<<ast_new_symbol(<<"f", "o", "o">>)>>)}

\* The quoted expressions shown: the items and the lists of them.
QuotedExprs ==
    QuotedItems \cup {ListOf(items) : items \in SeqsUpTo(QuotedItems, MaxQuoted)}

----
\* Parser (reader.c).  A Parser is the lexer, the current token and the fatal
\* error met, "no" while there is none; compiler_error ends the run, so every
\* function returns at once on a Parser that has met one.

\* p->current = lexer_next_token(p->lexer)
NextTok(p) ==
    [lex |-> lexer_next_token(p.lex).lex,
     current |-> lexer_next_token(p.lex).tok,
     exit |-> IF p.exit # "no" THEN p.exit ELSE lexer_next_token(p.lex).exit]

parser_init(lex) ==
    NextTok([lex |-> lex, current |-> Tok("NONE", <<>>, lex), exit |-> "no"])

compiler_error(p, msg) == [p EXCEPT !.exit = IF @ = "no" THEN msg ELSE @]

Parsed(p, ast) == [p |-> p, ast |-> ast]

Rejected(p, msg) == Parsed(compiler_error(p, msg), AstNode("NONE"))

IsSymbol(tok, name) == tok.type = "TOK_SYMBOL" /\ tok.value = name

\* The parameter after a bracket: name, then :: and a type name if both follow
ParamTyped(p, name) ==
    IF p.current.type = "TOK_SYMBOL"
    THEN [p |-> NextTok(p), param |-> [name |-> name, type_name |-> p.current.value]]
    ELSE [p |-> p, param |-> [name |-> name, type_name |-> NullStr]]

ParamNamed(p, name) ==
    IF IsSymbol(p.current, <<":", ":">>) THEN ParamTyped(NextTok(p), name)
    ELSE [p |-> p, param |-> [name |-> name, type_name |-> NullStr]]

parse_one_param(p) ==
    IF p.current.type = "TOK_SYMBOL" THEN ParamNamed(NextTok(p), p.current.value)
    ELSE [p |-> p, param |-> [name |-> NullStr, type_name |-> NullStr]]

RECURSIVE parse_fn_signature(_, _, _)

\* The closing bracket of a parameter and the rest of the signature
SignatureParam(o, params, ret_type) ==
    parse_fn_signature(
        NextTok(IF o.p.current.type # "TOK_RBRACKET"
                THEN compiler_error(o.p, "Expected ']' after parameter") ELSE o.p),
        Append(params, o.param), ret_type)

parse_fn_signature(p, params, ret_type) ==
    IF p.exit # "no" THEN [p |-> p, params |-> params, ret_type |-> ret_type]
    ELSE IF p.current.type \notin {"TOK_RPAREN", "TOK_EOF"}
    THEN IF p.current.type = "TOK_LBRACKET"
         THEN SignatureParam(parse_one_param(NextTok(p)), params, ret_type)
         ELSE IF p.current.type = "TOK_ARROW"
         THEN parse_fn_signature(NextTok(p), params, ret_type)
         ELSE IF p.current.type = "TOK_SYMBOL"
         THEN parse_fn_signature(NextTok(p), params, p.current.value)
         ELSE [p |-> compiler_error(p, "Unexpected token in function signature"),
               params |-> params, ret_type |-> ret_type]
    ELSE IF p.current.type # "TOK_RPAREN"
    THEN [p |-> compiler_error(p, "Expected ')' to close function signature"),
          params |-> params, ret_type |-> ret_type]
    ELSE [p |-> NextTok(p), params |-> params, ret_type |-> ret_type]

RECURSIVE parse_expr(_)
RECURSIVE parse_list(_)
RECURSIVE parse_lambda(_)
RECURSIVE ListItems(_, _, _, _)

\* The lambda node of a signature, an optional docstring and a parsed body
LambdaOf(sig, docstring, body) ==
    Parsed(body.p, ast_new_lambda(sig.params, sig.ret_type, docstring, body.ast))

\* The optional docstring and the body that follow a signature
LambdaRest(sig) ==
    IF sig.p.current.type = "TOK_STRING"
    THEN LambdaOf(sig, sig.p.current.value, parse_expr(NextTok(sig.p)))
    ELSE LambdaOf(sig, NullStr, parse_expr(sig.p))

parse_lambda(p) ==
    IF p.current.type # "TOK_LPAREN"
    THEN Rejected(p, "Expected '(' after 'lambda'")
    ELSE LambdaRest(parse_fn_signature(NextTok(p), <<>>, NullStr))

\* ast_list_append(list, parse_expr(p)) and the rest of the loop
ListItem(item, list, close, msg) ==
    ListItems(item.p, ast_list_append(list, item.ast), close, msg)

\* while (current is neither close nor EOF) append parse_expr; then the
\* close, whose column ends the span of the list
ListItems(p, list, close, msg) ==
    IF p.exit # "no" THEN Parsed(p, list)
    ELSE IF p.current.type \notin {close, "TOK_EOF"}
    THEN ListItem(parse_expr(p), list, close, msg)
    ELSE IF p.current.type # close THEN Rejected(p, msg)
    ELSE Parsed(NextTok(p), [list EXCEPT !.end_column = p.current.column + 1])

\* The empty list that starts at the token start
ListAt(start) == At(ast_new_list, start.line, start.column, 0)

\* The node of a token that ends width columns after its start
TokNode(ast, tok, width) == At(ast, tok.line, tok.column, tok.column + width)

\* The closing parenthesis after a lambda
ClosedLambda(lam, start) ==
    IF lam.p.exit # "no" THEN Parsed(lam.p, AstNode("NONE"))
    ELSE IF lam.p.current.type # "TOK_RPAREN"
    THEN Rejected(lam.p, "Expected ')' after lambda body")
    ELSE Parsed(NextTok(lam.p),
                At(lam.ast, start.line, start.column, lam.p.current.column + 1))

\* (define fname (lambda ...)) with the spans the short form gives its nodes
DefineResult(fname, lam, start, end_column) ==
    At(ListOf(<<ast_new_symbol(<<"d", "e", "f", "i", "n", "e">>),
                TokNode(ast_new_symbol(fname.value), fname, Len(fname.value)),
                At(lam, fname.line, fname.column, end_column)>>),
       start.line, start.column, end_column)

\* The closing parenthesis after the body of a short-form define
ClosedDefine(fname, lam, start) ==
    IF lam.p.exit # "no" THEN Parsed(lam.p, AstNode("NONE"))
    ELSE IF lam.p.current.type # "TOK_RPAREN"
    THEN Rejected(lam.p, "Expected ')' after define body")
    ELSE Parsed(NextTok(lam.p),
                DefineResult(fname, lam.ast, start, lam.p.current.column + 1))

\* (define (fname signature...) docstring? body); p stands after "(define ("
DefineShort(p, start) ==
    IF p.current.type # "TOK_SYMBOL"
    THEN Rejected(p, "Expected function name after (define (")
    ELSE ClosedDefine(p.current,
                      LambdaRest(parse_fn_signature(NextTok(p), <<>>, NullStr)),
                      start)

\* p stands after "(define"
DefineForm(p, define_token, start) ==
    IF p.current.type = "TOK_LPAREN" THEN DefineShort(NextTok(p), start)
    ELSE ListItems(p, ast_list_append(ListAt(start),
                                      TokNode(ast_new_symbol(define_token.value),
                                              define_token, Len(define_token.value))),
                   "TOK_RPAREN", "Expected ')'")

\* p stands after the opening parenthesis, the token start
ListForm(p, start) ==
    IF IsSymbol(p.current, <<"l", "a", "m", "b", "d", "a">>)
    THEN ClosedLambda(parse_lambda(NextTok(p)), start)
    ELSE IF IsSymbol(p.current, <<"d", "e", "f", "i", "n", "e">>)
    THEN DefineForm(NextTok(p), p.current, start)
    ELSE ListItems(p, ListAt(start), "TOK_RPAREN", "Expected ')'")

parse_list(p) == ListForm(NextTok(p), p.current)

parse_bracket_list(p) ==
    ListItems(NextTok(p), ListAt(p.current), "TOK_RBRACKET", "Expected ']'")

\* (quote quoted), from the quote token to the end of what it quotes
QuoteOf(quoted, tok) ==
    Parsed(quoted.p,
           At(ListOf(<<ast_new_symbol(<<"q", "u", "o", "t", "e">>), quoted.ast>>),
              tok.line, tok.column, quoted.ast.end_column))

\* The node of the current token, which is then passed
Leaf(p, ast, width) == Parsed(NextTok(p), TokNode(ast, p.current, width))

parse_expr(p) ==
    IF p.exit # "no" THEN Parsed(p, AstNode("NONE"))
    ELSE CASE p.current.type = "TOK_NUMBER" ->
                Leaf(p, NumberOf(p.current.value), Len(p.current.value))
           [] p.current.type = "TOK_SYMBOL" ->
                Leaf(p, ast_new_symbol(p.current.value), Len(p.current.value))
           [] p.current.type = "TOK_STRING" ->
                Leaf(p, ast_new_string(p.current.value), Len(p.current.value) + 2)
           [] p.current.type = "TOK_CHAR" ->
                Leaf(p, ast_new_char(p.current.value[1]), 3)
           [] p.current.type = "TOK_LPAREN" -> parse_list(p)
           [] p.current.type = "TOK_LBRACKET" -> parse_bracket_list(p)
           [] p.current.type = "TOK_QUOTE" -> QuoteOf(parse_expr(NextTok(p)), p.current)
           [] p.current.type = "TOK_ARROW" -> Leaf(p, ast_new_symbol(<<"-", ">">>), 2)
           [] OTHER -> Rejected(p, "unexpected token type")

parse(source) == parse_expr(parser_init(lexer_init(source)))

\* The sources read: atoms, and forms made of them.
AtomTexts ==
    {<<"x">>, <<"f", "o", "o">>, <<"1">>, <<"2", ".", "5">>, <<"0", "x", "F", "F">>,
     <<"1", "2", "3", "4", "5", "6", "7">>, <<"-", "3">>, <<"\"", "a", "b", "\"">>,
     <<"'", "c", "'">>, <<"'", "\\", "'", "'">>, <<"-", ">">>}

LambdaHead == <<"(", "l", "a", "m", "b", "d", "a", " ">>

DefineHead == <<"(", "d", "e", "f", "i", "n", "e", " ">>

\* [x :: Int]
TypedParam == <<"[", "x", " ", ":", ":", " ", "I", "n", "t", "]">>

FormsOf(a, b) ==
    {<<"(">> \o a \o <<")">>,
     <<"(">> \o a \o <<" ">> \o b \o <<")">>,
     <<"[">> \o a \o <<" ">> \o b \o <<"]">>,
     <<"(", "(">> \o a \o <<")", " ">> \o b \o <<")">>,
     <<"'">> \o a,
     <<"'", "(">> \o a \o <<" ">> \o b \o <<")">>,
     LambdaHead \o <<"(">> \o TypedParam \o <<" ", "-", ">", " ", "I", "n", "t", ")", " ">>
                \o a \o <<")">>,
     LambdaHead \o <<"(", "[", "x", "]", " ", "[", "y", "]", ")", " ", "\"", "d", "\"", " ">>
                \o a \o <<")">>,
     LambdaHead \o <<"(", ")", " ">> \o a \o <<" ">> \o b \o <<")">>,
     DefineHead \o <<"(", "f", " ">> \o TypedParam \o <<")", " ">> \o a \o <<")">>,
     DefineHead \o <<"x", " ">> \o a \o <<")">>,
     <<"[", "l", "a", "m", "b", "d", "a", " ">> \o a \o <<"]">>,
     <<"(">> \o a \o <<" ">> \o b,
     <<" ", " ", "(">> \o a \o <<"\n", ")">>,
     <<" ", " ", "(">> \o a \o <<"\n", " ">> \o b \o <<")">>,
     <<" ", "'", "\n">> \o a}

Sources ==
    AtomTexts \cup {<<>>, <<"(", ")">>}
    \cup UNION {FormsOf(a, b) : a \in AtomTexts, b \in AtomTexts}

\* Equality of two trees: node kinds, numeric values, symbol and string
\* texts, character values, child order, lambda parameters, return type,
\* docstring and body.
RECURSIVE AstEqual(_, _)
AstEqual(a, b) ==
    /\ a.type = b.type
    /\ CASE a.type = "AST_NUMBER" -> Normalise(a.number) = Normalise(b.number)
         [] a.type = "AST_SYMBOL" -> a.symbol = b.symbol
         [] a.type = "AST_STRING" -> a.string = b.string
         [] a.type = "AST_CHAR"   -> a.character = b.character
         [] a.type = "AST_LIST"   ->
               /\ Len(a.items) = Len(b.items)
               /\ \A i \in 1..Len(a.items) : AstEqual(a.items[i], b.items[i])
         [] a.type = "AST_LAMBDA" ->
               /\ a.params = b.params
               /\ a.return_type = b.return_type
               /\ a.docstring = b.docstring
               /\ AstEqual(a.body[1], b.body[1])
         [] OTHER -> TRUE

\* The printed form of a parsed tree read again
Reparsed(s, first, again) ==
    [s EXCEPT !.exit = first.p.exit, !.ast = first.ast,
              !.text = ast_print(first.ast),
              !.exit2 = again.p.exit, !.again = again.ast]

ReadBack(s, first) ==
    IF first.p.exit # "no" THEN [s EXCEPT !.exit = first.p.exit]
    ELSE Reparsed(s, first, parse(ast_print(first.ast)))

InitPrint ==
    /\ env = env_create
    /\ envHist = <<>>
    /\ arith = NoArith
    /\ rd = NoRead
    /\ heap = EmptyHeap
    /\ cg = NoBatch
    /\ repl = NoRepl
    /\ conv = NoConv
    /\ pr = NoPrint
    /\ em = NoEmit

\* (show 'q) compiled and run, and ast_print(q)
ShowQuote ==
    /\ pr.op = "none"
    /\ \E q \in QuotedExprs :
          pr' = [NoPrint EXCEPT !.op = "show", !.ast = q, !.text = ast_print(q),
                                !.shown = ShowQuoted(Quote(q))]
    /\ UNCHANGED <<env, envHist, arith, rd, heap, cg, repl, conv, em>>

\* The run of the function get_or_declare_print_binary emits,
\* long __print_binary(long n), block by block.

\* Bit positions the arguments are made of
BinBits == {0, 1, 3, 31, 32, TopBit}

\* i32 subtraction
SubI32(a, b) ==
    IF a - b < -2147483647 - 1 THEN a - b + 2147483647 + 2147483647 + 2 ELSE a - b

\* entry: printf("0b"); idx = 63; started = 0; br loop_cond
print_binary_entry(n) ==
    [NoPrint EXCEPT !.op = "bin", !.n = n, !.text = <<"0", "b">>,
                    !.idx = TopBit, !.started = 0, !.pc = "loop_cond"]

\* lshr n, idx64 and 1
BitOf(n, idx) == n[idx]

\* A loop body that forgets it has started printing
loop_body_noStarted(s) ==
    LET bit1 == BitOf(s.n, s.idx)
        do_print == bit1 = 1 \/ s.started # 0
    IN  [s EXCEPT !.text = IF do_print
                           THEN @ \o <<IF bit1 = 1 THEN "1" ELSE "0">> ELSE @,
                  !.idx = SubI32(@, 1),
                  !.steps = @ + 1]

\* loop_body, print_bit and skip_bit for the current idx
loop_body(s) ==
    LET bit1 == BitOf(s.n, s.idx)
        do_print == bit1 = 1 \/ s.started # 0
    IN  [s EXCEPT !.started = IF do_print THEN 1 ELSE @,
                  !.text = IF do_print
                           THEN @ \o <<IF bit1 = 1 THEN "1" ELSE "0">> ELSE @,
                  !.idx = SubI32(@, 1),
                  !.steps = @ + 1]

\* loop_end, print_zero and print_newline; ret 0
loop_end(s) ==
    [s EXCEPT !.text = (IF s.started = 0 THEN @ \o <<"0">> ELSE @) \o <<"\n">>,
              !.pc = "done"]

PrintBinaryCall ==
    /\ pr.op = "none"
    /\ \E S \in SUBSET BinBits : pr' = print_binary_entry(Word(S))
    /\ UNCHANGED <<env, envHist, arith, rd, heap, cg, repl, conv, em>>

\* loop_cond with idx >= 0
PrintBinaryLoop ==
    /\ pr.op = "bin" /\ pr.pc = "loop_cond"
    /\ pr.idx >= 0
    /\ pr' = loop_body(pr)
    /\ UNCHANGED <<env, envHist, arith, rd, heap, cg, repl, conv, em>>

\* loop_cond with idx < 0
PrintBinaryEnd ==
    /\ pr.op = "bin" /\ pr.pc = "loop_cond"
    /\ ~(pr.idx >= 0)
    /\ pr' = loop_end(pr)
    /\ UNCHANGED <<env, envHist, arith, rd, heap, cg, repl, conv, em>>

\* parse(source), ast_print of the tree and parse of the text printed
ParsePrinted ==
    /\ pr.op = "none"
    /\ \E source \in Sources :
          pr' = ReadBack([NoPrint EXCEPT !.op = "parse", !.src = source], parse(source))
    /\ UNCHANGED <<env, envHist, arith, rd, heap, cg, repl, conv, em>>

NextPrint ==
    ShowQuote \/ PrintBinaryCall \/ PrintBinaryLoop \/ PrintBinaryEnd \/ ParsePrinted

SpecPrint == InitPrint /\ [][NextPrint]_vars

\* The emitted function runs to its return once called.
SpecPrintFair == SpecPrint /\ WF_vars(PrintBinaryLoop) /\ WF_vars(PrintBinaryEnd)

----
\* Claims about printing

\* C18: what (show 'q) prints at run time is the text ast_print gives for q
\* followed by one newline, with no newline before the end.
C18_ShowMatchesPrinter ==
    pr.op = "show" => pr.shown = pr.text \o <<"\n">>

\* The digits of the unsigned value of n, most significant first, without
\* leading zeros; the digit 0 for zero.
BinaryDigits(n) ==
    LET ones == {i \in 0..TopBit : n[i] = 1}
    IN  IF ones = {} THEN <<"0">>
        ELSE LET hi == CHOOSE i \in ones : \A j \in ones : j <= i
             IN  [k \in 1..(hi + 1) |-> IF n[hi + 1 - k] = 1 THEN "1" ELSE "0"]

\* The function has returned having looked at bits TopBit..0, and has printed
\* 0b, the digits and a newline.
PrintedBinary ==
    /\ pr.steps = TopBit + 1
    /\ pr.idx = -1
    /\ pr.text = <<"0", "b">> \o BinaryDigits(pr.n) \o <<"\n">>

\* C19: for every i64 n, __print_binary returns after looking at bits 63..0
\* and has then printed 0b, the binary digits of n as an unsigned value with
\* no leading zeros (0 for zero), and one newline.
C19_PrintBinary ==
    /\ [](pr.pc = "done" => PrintedBinary)
    /\ (pr.op = "bin") ~> (pr.pc = "done")

\* __print_binary has returned for an argument with the top bit set and
\* zeros below it
C19_Witness ==
    /\ pr.op = "bin" /\ pr.pc = "done"
    /\ pr.n[TopBit] = 1 /\ pr.n[0] = 0 /\ pr.n[1] = 1

\* C20: for every source the parser accepts, the text ast_print gives for
\* its tree is accepted too and parses to a tree structurally equal to it.
C20_PrintParseRoundTrip ==
    (pr.op = "parse" /\ pr.exit = "no") =>
        (pr.exit2 = "no" /\ AstEqual(pr.ast, pr.again))

----
\* Claims about the spans of the reader's trees

\* ast and every node below it has line >= 1, column >= 1 and
\* column <= end_column.
RECURSIVE SpanOk(_)
SpanOk(ast) ==
    /\ ast.line >= 1
    /\ ast.column >= 1
    /\ ast.column <= ast.end_column
    /\ \A i \in 1..Len(ast.items) : SpanOk(ast.items[i])
    /\ \A i \in 1..Len(ast.body) : SpanOk(ast.body[i])

\* C21: every node of a tree parse returns, the nodes the parser makes up
\* and the lists closed on a later line included, has line >= 1,
\* column >= 1 and column <= end_column.
C21_SpansWellFormed ==
    (pr.op = "parse" /\ pr.exit = "no") => SpanOk(pr.ast)

----
\* The lexer called again and again on a buffer in memory.  The buffer holds
\* the source and its NUL; what lies behind the NUL is whatever the bytes
\* after the allocation are, here one of a few byte strings.

ScanAlphabet == {"\"", "\\", "'", "a", " ", "@"}

BehindBuffer == {<<>>, <<"\"">>, <<"a", "\"">>}

InitScan ==
    /\ env = env_create
    /\ envHist = <<>>
    /\ arith = NoArith
    /\ heap = EmptyHeap
    /\ cg = NoBatch
    /\ repl = NoRepl
    /\ conv = NoConv
    /\ pr = NoPrint
    /\ em = NoEmit
    /\ \E source \in SeqsUpTo(ScanAlphabet, MaxScanLen), behind \in BehindBuffer :
          rd = [lex |-> lexer_init(source \o <<NUL>> \o behind),
                tok |-> NoRead.tok, exit |-> "no", number |-> NoNumber,
                nul |-> Len(source), before |-> 0, calls |-> 0, eof |-> FALSE]

\* One more lexer_next_token call, whatever the last one returned
ScanToken ==
    /\ rd.exit = "no"
    /\ rd.calls < MaxCalls
    /\ rd' = [rd EXCEPT !.lex = lexer_next_token(rd.lex).lex,
                        !.tok = lexer_next_token(rd.lex).tok,
                        !.exit = lexer_next_token(rd.lex).exit,
                        !.before = rd.lex.pos,
                        !.calls = @ + 1,
                        !.eof = @ \/ (rd.calls > 0 /\ rd.tok.type = "TOK_EOF")]
    /\ UNCHANGED <<env, envHist, arith, heap, cg, repl, conv, pr, em>>

NextScan == ScanToken

SpecScan == InitScan /\ [][NextScan]_vars

\* C22: a string token is emitted only for a string closed before the end of
\* the source; a source that ends inside a string (after a backslash too) is
\* a fatal lexical error.
C22_UnterminatedStringFatal ==
    (rd.calls > 0 /\ rd.exit = "no" /\ rd.tok.type = "TOK_STRING") =>
        rd.lex.pos <= rd.nul

\* C28: the position never passes the terminating NUL, every call that
\* returns a token other than end-of-input moves the position forward, and
\* after end-of-input every call returns end-of-input.
C28_LexerBounded ==
    /\ rd.lex.pos <= rd.nul
    /\ (rd.calls > 0 /\ rd.exit = "no" /\ rd.tok.type # "TOK_EOF") =>
          rd.lex.pos > rd.before
    /\ (rd.eof /\ rd.exit = "no") => rd.tok.type = "TOK_EOF"

----
\* The back end of compile (main.c): verification, then the sinks the flags
\* select, block by block.  Whether an LLVM call or the linker succeeds is
\* an input of the step that makes it.

Flags == [emit_ir : BOOLEAN, emit_bc : BOOLEAN, emit_asm : BOOLEAN, emit_obj : BOOLEAN]

\* !flags->emit_ir && !flags->emit_bc && !flags->emit_obj && !flags->emit_asm
NoFlag(flags) ==
    ~flags.emit_ir /\ ~flags.emit_bc /\ ~flags.emit_obj /\ ~flags.emit_asm

\* flags->emit_obj || flags->emit_asm || (!flags->emit_ir && !flags->emit_bc)
NeedsMachine(flags) ==
    flags.emit_obj \/ flags.emit_asm \/ (~flags.emit_ir /\ ~flags.emit_bc)

InitEmit ==
    /\ env = env_create
    /\ envHist = <<>>
    /\ arith = NoArith
    /\ rd = NoRead
    /\ heap = EmptyHeap
    /\ cg = NoBatch
    /\ repl = NoRepl
    /\ conv = NoConv
    /\ pr = NoPrint
    /\ \E flags \in Flags : em = [NoEmit EXCEPT !.pc = "verify", !.flags = flags]

\* A sink that writes file when selected: on failure a message, and on
\* either outcome the next block
Sink(s, selected, ok, file, next) ==
    IF ~selected THEN [s EXCEPT !.pc = next]
    ELSE IF ok THEN [s EXCEPT !.pc = next, !.files = @ \cup {file}]
    ELSE [s EXCEPT !.pc = next, !.failed = @ \cup {file}]

\* LLVMVerifyModule(ctx.module, LLVMAbortProcessAction, &error)
EmitVerify ==
    /\ em.pc = "verify"
    /\ \E ok \in BOOLEAN :
          em' = IF ok THEN [em EXCEPT !.pc = "ir"]
                ELSE [em EXCEPT !.pc = "done", !.exit = "SIGABRT",
                                !.failed = @ \cup {"verify"}]
    /\ UNCHANGED <<env, envHist, arith, rd, heap, cg, repl, conv, pr>>

EmitIr ==
    /\ em.pc = "ir"
    /\ \E ok \in BOOLEAN : em' = Sink(em, em.flags.emit_ir, ok, ".ll", "bc")
    /\ UNCHANGED <<env, envHist, arith, rd, heap, cg, repl, conv, pr>>

EmitBc ==
    /\ em.pc = "bc"
    /\ \E ok \in BOOLEAN :
          em' = Sink(em, em.flags.emit_bc, ok, ".bc",
                     IF NeedsMachine(em.flags) THEN "target" ELSE "finish")
    /\ UNCHANGED <<env, envHist, arith, rd, heap, cg, repl, conv, pr>>

\* LLVMGetTargetFromTriple; exit(1) on failure
EmitTarget ==
    /\ em.pc = "target"
    /\ \E ok \in BOOLEAN :
          em' = IF ok THEN [em EXCEPT !.pc = "asm"]
                ELSE [em EXCEPT !.pc = "done", !.exit = "1",
                                !.failed = @ \cup {"target"}]
    /\ UNCHANGED <<env, envHist, arith, rd, heap, cg, repl, conv, pr>>

EmitAsm ==
    /\ em.pc = "asm"
    /\ \E ok \in BOOLEAN : em' = Sink(em, em.flags.emit_asm, ok, ".s", "obj")
    /\ UNCHANGED <<env, envHist, arith, rd, heap, cg, repl, conv, pr>>

\* The object file is emitted whatever the flags; the linker follows when
\* no flag is set.
EmitObj ==
    /\ em.pc = "obj"
    /\ \E ok \in BOOLEAN :
          em' = Sink(em, TRUE, ok, ".o",
                     IF ok /\ NoFlag(em.flags) THEN "link" ELSE "finish")
    /\ UNCHANGED <<env, envHist, arith, rd, heap, cg, repl, conv, pr>>

\* system("gcc obj -o base -lm -no-pie"); remove(obj_file) when it returns 0
EmitLink ==
    /\ em.pc = "link"
    /\ \E ok \in BOOLEAN :
          em' = IF ok THEN [em EXCEPT !.pc = "finish",
                                      !.files = (@ \cup {"executable"}) \ {".o"}]
                ELSE [em EXCEPT !.pc = "finish", !.failed = @ \cup {"link"}]
    /\ UNCHANGED <<env, envHist, arith, rd, heap, cg, repl, conv, pr>>

\* compile returns and main returns 0
EmitReturn ==
    /\ em.pc = "finish"
    /\ em' = [em EXCEPT !.pc = "done", !.exit = "0"]
    /\ UNCHANGED <<env, envHist, arith, rd, heap, cg, repl, conv, pr>>

NextEmit ==
    \/ EmitVerify \/ EmitIr \/ EmitBc \/ EmitTarget
    \/ EmitAsm \/ EmitObj \/ EmitLink \/ EmitReturn

SpecEmit == InitEmit /\ [][NextEmit]_vars

\* The artifacts the flags ask for: the executable when there is no flag
Requested(flags) ==
    IF NoFlag(flags) THEN {"executable"}
    ELSE (IF flags.emit_ir THEN {".ll"} ELSE {})
         \cup (IF flags.emit_bc THEN {".bc"} ELSE {})
         \cup (IF flags.emit_asm THEN {".s"} ELSE {})
         \cup (IF flags.emit_obj THEN {".o"} ELSE {})

\* C23: a batch compile in which a back-end step failed ends with exit
\* code 1, and one that ends with exit code 0 has produced every artifact
\* asked for.
C23_BackendFailureFatal ==
    em.pc = "done" =>
        /\ em.failed # {} => em.exit = "1"
        /\ em.exit = "0" => Requested(em.flags) \subseteq em.files

\* C24: after a compile in which every step succeeded, the files on disk are
\* exactly the artifacts the flags ask for; with no flag, the executable
\* alone.
C24_ExactArtifacts ==
    (em.pc = "done" /\ em.failed = {}) => em.files = Requested(em.flags)

----
\* Claims about the ownership of Type records

\* The Type pointers an entry owns: its type, its return type, the types of
\* its parameters
OwnedBy(e) ==
    (IF e.type # 0 THEN <<e.type>> ELSE <<>>)
    \o (IF e.return_type # 0 THEN <<e.return_type>> ELSE <<>>)
    \o [i \in 1..Len(e.params) |-> e.params[i].type]

RECURSIVE OwnedAll(_)
OwnedAll(es) == IF es = <<>> THEN <<>> ELSE OwnedBy(Head(es)) \o OwnedAll(Tail(es))

\* No pointer stands twice in the sequence ts
NoneShared(ts) == \A i \in 1..Len(ts) : \A j \in 1..Len(ts) : i # j => ts[i] # ts[j]

\* C25: after any sequence of top-level forms, and after the teardown, no
\* Type record has been freed twice or read after being freed; until the
\* teardown every entry's type is a live record, and no record is owned by
\* two entries or by an entry and a return-type slot.
C25_TypeOwnership ==
    /\ heap.ub = <<>>
    /\ cg.exit # "disposed" =>
          /\ \A i \in 1..Len(EnvEntries(cg.env)) :
                EnvEntries(cg.env)[i].type # 0
                    => IsLive(heap, EnvEntries(cg.env)[i].type)
          /\ NoneShared(OwnedAll(EnvEntries(cg.env)))

----
\* Claims about the environment of the interactive session

\* repl_eval_line returned false for the last line.
LineFailed ==
    repl.nlines > 0 /\ repl.outcome \in {"lowering failed", "verification failed"}

\* C26: a line for which repl_eval_line returns false leaves every name as
\* it was before the line: bound or not, with the same kind, the same Type
\* and the same storage.
C26_FailedLineKeepsEnv ==
    LineFailed =>
        \A n \in DOMAIN repl.defined :
            LET e0 == find(repl.envBefore, n)
                e1 == find(repl.env, n)
            IN  /\ e1 = e0
                /\ (e0.kind = "ENV_VAR" /\ IsLive(repl.heapBefore, e0.type))
                      => /\ IsLive(heap, e1.type)
                         /\ heap.cells[e1.type].kind
                               = repl.heapBefore.cells[e0.type].kind

\* C27: the global that the entry of a name points to was created with the
\* LLVM type of the entry's declared type.
C27_GlobalMatchesEntry ==
    \A n \in DOMAIN repl.defined :
        LET e == find(repl.env, n)
        IN  (repl.exit = "no" /\ e.kind = "ENV_VAR" /\ e.type # 0 /\ e.value # 0) =>
               repl.globals[e.value].ty = type_to_llvm(heap.cells[e.type].kind)

----
\* Loads of symbols in value position (main.c, AST_SYMBOL and show)

\* The lookups in value position that the lowering of the last form made.
ValueLookups ==
    {i \in DOMAIN cg.trace : cg.trace[i].use \in {"load", "show"}}

\* The lowering stopped at lookup i with the report of an unbound variable.
ReportedAt(i) == i = Len(cg.trace) /\ cg.exit = "unbound variable"

\* C29: in batch lowering every load for a symbol in value position reads
\* the non-null storage of a variable entry; a symbol that resolves to a
\* function entry or to nothing is reported as an error and never loaded.
C29_LoadsReadVariables ==
    \A i \in ValueLookups :
        IF cg.trace[i].got.kind = "ENV_VAR" /\ cg.trace[i].got.value # 0
        THEN ~ReportedAt(i)
        ELSE ReportedAt(i)

----
\* One arithmetic call over numeric literals lowered by both engines
\* (main.c and repl.c, codegen_expr)

\* Lexemes of number tokens: decimal, fraction, the three prefixes, and an
\* integer of more digits than %g keeps.
LiteralLexemes ==
    {<<"1">>, <<"2", ".", "5">>, <<"0", "x", "F", "F">>, <<"0", "b", "1", "0">>,
     <<"0", "o", "7">>, <<"1", "2", "3", "4", "5", "6", "7">>}

\* (op l1 ... ln) as parse_list builds it from the lexemes.
LiteralCall(op, lexemes) ==
    ListOf(<<Sym(op)>> \o [i \in 1..Len(lexemes) |-> NumberOf(lexemes[i])])

NoVerdict == [accepted |-> FALSE, kind |-> "Unknown"]

\* What a lowering that gave r decided: accepted, and the kind of the result.
Verdict(r, accepted) ==
    IF accepted /\ r.type # 0
    THEN [accepted |-> TRUE, kind |-> r.ctx.heap.cells[r.type].kind]
    ELSE [accepted |-> accepted, kind |-> "Unknown"]

InitEngines ==
    /\ env = env_create
    /\ envHist = <<>>
    /\ rd = NoRead
    /\ heap = EmptyHeap
    /\ cg = NoBatch
    /\ repl = NoRepl
    /\ conv = NoConv
    /\ pr = NoPrint
    /\ em = NoEmit
    /\ \E op \in ArithOps, lexemes \in SeqsUpTo(LiteralLexemes, MaxArgs) :
          arith = [done |-> FALSE, expr |-> LiteralCall(op, lexemes),
                   batch |-> NoVerdict, repl |-> NoVerdict]

\* The batch compiler lowers the form: rejected when it exits.
BatchVerdict(r) == Verdict(r, r.ctx.exit = "no")

\* repl_eval_line lowers and verifies the line: rejected unless it is run.
ReplVerdict(r) == Verdict(r, LineOutcome(r) = "run")

LowerBoth ==
    /\ ~arith.done
    /\ arith' = [arith EXCEPT
          !.done = TRUE,
          !.batch = BatchVerdict(codegen_expr(TopCtx(DefaultOracle), arith.expr)),
          !.repl = ReplVerdict(LowerLine(DefaultOracle, arith.expr))]
    /\ UNCHANGED <<env, envHist, rd, heap, cg, repl, conv, pr, em>>

NextEngines == LowerBoth

SpecEngines == InitEngines /\ [][NextEngines]_vars

\* The kinds that the lexemes of the operands imply.
LexemeKinds(expr) ==
    [i \in 1..(Len(expr.items) - 1) |->
        infer_literal_type(expr.items[i + 1].number, expr.items[i + 1].literal_str)]

\* C30: for every arithmetic expression over numeric literals the
\* interactive evaluator accepts or rejects it as batch lowering does and
\* gives the same result kind, each operand having in both engines the kind
\* its lexeme implies (0xFF Hex, 0b10 Bin, an integer of any size Int).
C30_EnginesAgree ==
    arith.done =>
        /\ arith.repl = arith.batch
        /\ Len(arith.expr.items) > 1 =>
               LET r == ArithCall(arith.expr.items[1].symbol, LexemeKinds(arith.expr))
               IN  /\ arith.batch.accepted = (r.err = "none")
                   /\ arith.batch.accepted => arith.batch.kind = r.type

====
